---- MODULE Spec2Model ----
(***************************************************************************)
(* A model of avalon-core's host context (avalon/host_context.py) and of   *)
(* the loader orchestration, config resolution, event bus, representation  *)
(* paths and workfile resolution of avalon/pipeline.py.                    *)
(*                                                                         *)
(* Python values are modelled as follows: None is the string "None"; a     *)
(* class object is a string identifying it (two different class objects may*)
(* carry the same __name__); a dict is a function whose DOMAIN is its key  *)
(* set; a list is a sequence; a raised exception is the name of its class. *)
(***************************************************************************)
EXTENDS Integers, Sequences, FiniteSets, TLC

VARIABLES
    registered_plugins,        \* HostContext.registered_plugins: dict superclass -> list
    registered_plugin_paths,   \* HostContext.registered_plugin_paths: dict superclass -> list
    registered_root,           \* HostContext.registered_root
    registered_host,           \* HostContext.registered_host, the instance attribute
    _registered_config,        \* HostContext._registered_config, the class attribute
    Session,                   \* the process-wide Session mapping
    _registered_event_handlers,\* pipeline._registered_event_handlers: event -> callbacks
    environ,                   \* os.environ: variable -> str
    document,                  \* the active Photoshop document: layer id -> imprinted data
    _is_installed,             \* pipeline._is_installed, the module attribute
    _config,                   \* pipeline._config, the module attribute
    emitted,                   \* what the last call emitted: [event, args, session]
    callback_queue,            \* toonboom.lib.callback_queue: [created, items]
    workfile_path,             \* toonboom.lib.workfile_path
    threads,                   \* the threads of the Toon Boom bridge: name -> record
    filesystem,                \* the files on disk: absolute path -> content
    cwd,                       \* the working directory of the process
    executed,                  \* callbacks run by main_thread_listen, in order
    ret,                       \* the last call: [op, arg, exc, val]
    calls                      \* plug-in entry points invoked by the last call, in order

vars == <<registered_plugins, registered_plugin_paths, registered_root,
          registered_host, _registered_config, Session,
          _registered_event_handlers, environ, document, _is_installed,
          _config, emitted, callback_queue, workfile_path, threads,
          filesystem, cwd, executed, ret, calls>>

None == "None"

NoAttr == "<no attribute>"

\* Longest lists the registry is driven to, per superclass.
MaxPlugins == 3

MaxPaths == 3

-----------------------------------------------------------------------------
(* The classes of the running interpreter.                                 *)

\* Class objects that serve as the `superclass` key of the registry.
Superclasses == {"Creator", "Loader"}

\* Every class object: its __name__, its direct __bases__, its family
\* attribute (NoAttr when a lookup of `family` raises AttributeError) and
\* whether its process() raises.
ClassInfo ==
    [c \in {"object", "Creator", "Creator@stale", "Loader", "CreateModel",
            "CreateModelB", "CreateModel@p2", "CreateModel@reg", "CreateRig",
            "Helper", "ImgLoader"} |->
        CASE c = "object"          -> [name |-> "object", bases |-> {}, family |-> NoAttr, raises |-> FALSE]
          [] c = "Creator"         -> [name |-> "Creator", bases |-> {"object"}, family |-> None, raises |-> FALSE]
          [] c = "Creator@stale"   -> [name |-> "Creator", bases |-> {"object"}, family |-> None, raises |-> FALSE]
          [] c = "Loader"          -> [name |-> "Loader", bases |-> {"object"}, family |-> NoAttr, raises |-> FALSE]
          [] c = "CreateModel"     -> [name |-> "CreateModel", bases |-> {"Creator"}, family |-> "model", raises |-> FALSE]
          [] c = "CreateModelB"    -> [name |-> "CreateModelB", bases |-> {"CreateModel"}, family |-> "model", raises |-> TRUE]
          [] c = "CreateModel@p2"  -> [name |-> "CreateModel", bases |-> {"Creator@stale"}, family |-> "model", raises |-> FALSE]
          [] c = "CreateModel@reg" -> [name |-> "CreateModel", bases |-> {"Creator"}, family |-> "rig", raises |-> FALSE]
          [] c = "CreateRig"       -> [name |-> "CreateRig", bases |-> {"Creator"}, family |-> "rig", raises |-> FALSE]
          [] c = "Helper"          -> [name |-> "Helper", bases |-> {"object"}, family |-> NoAttr, raises |-> FALSE]
          [] c = "ImgLoader"       -> [name |-> "ImgLoader", bases |-> {"Loader"}, family |-> NoAttr, raises |-> FALSE]]

Classes == DOMAIN ClassInfo

\* Class names in ascending order, as Python compares strings.
NameOrder == <<"CreateModel", "CreateModelB", "CreateRig", "Creator", "Helper",
               "ImgLoader", "Loader", "object">>

NameRank(n) == CHOOSE i \in 1..Len(NameOrder) : NameOrder[i] = n

Families == {"model", "rig"}

-----------------------------------------------------------------------------
(* The file system the plug-in paths point into.                           *)

\* Paths a caller passes to register_plugin_path / deregister_plugin_path:
\* absolute POSIX paths, as the sequence of their components.
RawPaths == { <<"p1">>, <<"p1", ".">>, <<"p2">>, <<"p2", "..", "p1">> }

\* Modules that import successfully from a directory, in listing order.
modules_from_path(path) ==
    CASE path = <<"p1">> -> <<"mod_a", "mod_b">>
      [] path = <<"p2">> -> <<"mod_c">>
      [] OTHER -> << >>

\* The classes bound in a module, in the order of dir(module).
ModuleDir(module) ==
    CASE module = "mod_a" -> <<"CreateModel", "Creator", "Helper">>
      [] module = "mod_b" -> <<"CreateModelB", "CreateRig", "ImgLoader">>
      [] module = "mod_c" -> <<"CreateModel@p2">>
      [] OTHER -> << >>

RECURSIVE NormComponents(_, _)
NormComponents(comps, acc) ==
    IF comps = << >> THEN acc
    ELSE LET c == Head(comps) IN
         IF c = "" \/ c = "." THEN NormComponents(Tail(comps), acc)
         ELSE IF c = ".."
              THEN NormComponents(Tail(comps),
                                  IF acc = << >> THEN acc
                                  ELSE SubSeq(acc, 1, Len(acc) - 1))
              ELSE NormComponents(Tail(comps), Append(acc, c))

\* os.path.normpath on an absolute POSIX path.
normpath(path) == NormComponents(path, << >>)

-----------------------------------------------------------------------------
(* Sequence helpers standing for Python's list operations.                 *)

Range(s) == {s[i] : i \in DOMAIN s}

\* list.remove(x): the list without the first occurrence of x.
ListRemove(s, x) ==
    LET i == CHOOSE k \in DOMAIN s : s[k] = x /\ \A j \in 1..(k - 1) : s[j] # x
    IN  SubSeq(s, 1, i - 1) \o SubSeq(s, i + 1, Len(s))

RECURSIVE Flatten(_)
Flatten(ss) == IF ss = << >> THEN << >> ELSE Head(ss) \o Flatten(Tail(ss))

\* dict.get(key) or list()
GetOrEmpty(d, k) == IF k \in DOMAIN d THEN d[k] ELSE << >>

Result(op, arg, exc, val) == [op |-> op, arg |-> arg, exc |-> exc, val |-> val]

-----------------------------------------------------------------------------
(* Host and config modules, and the signature validation they pass.        *)

\* Host modules a caller may hand to register_host: the members each one
\* exposes, with the formal parameter names of each member.
HostMembers ==
    [h \in {"hostA", "hostNoLs"} |->
        CASE h = "hostA"    -> [m \in {"ls", "maintained_selection"} |-> << >>]
          [] h = "hostNoLs" -> [m \in {"install"} |-> << >>]]

Hosts == DOMAIN HostMembers

\* Values a caller may hand to register_root.
Roots == {"rootR"}

\* Faulty variant of SignatureMissing: the report stops at one missing member.
SignatureMissingFirst(members, signatures) ==
    LET lacking == {m \in DOMAIN signatures : m \notin DOMAIN members} IN
    IF lacking = {} THEN {} ELSE {CHOOSE m \in lacking : TRUE}

\* The members of `signatures` the module lacks.
SignatureMissing(members, signatures) ==
    {m \in DOMAIN signatures : m \notin DOMAIN members}

\* The members found whose parameters do not include the required ones.
SignatureInvalid(members, signatures) ==
    {m \in DOMAIN signatures \cap DOMAIN members :
        ~(Range(signatures[m]) \subseteq Range(members[m]))}

\* The message of the ValueError: the members named on its "Missing:" line and
\* the members given a "Found:" / "Expected:" pair of lines.
ValidationReport(members, signatures) ==
    [missing |-> SignatureMissing(members, signatures),
     invalid |-> SignatureInvalid(members, signatures)]

\* None when the module passes, else the exception raised.
_validate_signature(members, signatures) ==
    IF SignatureMissing(members, signatures) = {}
       /\ SignatureInvalid(members, signatures) = {}
    THEN None
    ELSE "ValueError"

HostSignatures == [m \in {"ls"} |-> << >>]

-----------------------------------------------------------------------------
(* HostContext: the active host and root.                                  *)

\* self.callback_queue: the None of the import, and a queue.Queue holding
\* `items`.
NoQueue == [created |-> FALSE, items |-> << >>]

Queue(items) == [created |-> TRUE, items |-> items]

\* The last call emitted no event.
NoEmission == [event |-> None, args |-> << >>, session |-> << >>]

\* The module attributes of pipeline.py and toonboom/lib.py right after
\* import, with nothing emitted yet and an empty disk.
Imported ==
    /\ _is_installed = FALSE
    /\ _config = None
    /\ emitted = NoEmission
    /\ callback_queue = NoQueue
    /\ workfile_path = None
    /\ threads = << >>
    /\ filesystem = << >>
    /\ cwd = None
    /\ executed = << >>

\* The installation flag and the Toon Boom bridge are left alone.
ModulesUnchanged ==
    UNCHANGED <<_is_installed, _config, callback_queue, workfile_path,
                threads, filesystem, cwd, executed>>

\* The state outside the HostContext instance.
ProcessUnchanged ==
    /\ UNCHANGED <<_registered_config, Session, _registered_event_handlers,
                   environ, document, emitted>>
    /\ ModulesUnchanged

RegistryUnchanged ==
    /\ UNCHANGED <<registered_plugins, registered_plugin_paths>>
    /\ ProcessUnchanged

register_host(host) ==
    LET exc == _validate_signature(HostMembers[host], HostSignatures) IN
    /\ registered_root' = IF exc = None THEN host ELSE registered_root
    /\ ret' = Result("register_host", host, exc,
                     IF exc = None THEN None
                     ELSE ValidationReport(HostMembers[host], HostSignatures))
    /\ calls' = << >>
    /\ UNCHANGED registered_host
    /\ RegistryUnchanged

\* The body of the method HostContext.registered_host.
registered_host_method == registered_root

\* What the expression ctx.registered_host() does: the attribute looked up on
\* the instance is the one __init__ assigned, which hides the method of the
\* class; calling a value that is not callable raises TypeError.
registered_host_lookup ==
    IF registered_host = None
    THEN [exc |-> "TypeError", val |-> None]
    ELSE [exc |-> None, val |-> registered_host_method]

registered_host_call ==
    /\ ret' = Result("registered_host", None, registered_host_lookup.exc,
                     registered_host_lookup.val)
    /\ calls' = << >>
    /\ UNCHANGED <<registered_root, registered_host>>
    /\ RegistryUnchanged

deregister_host ==
    /\ registered_root' = None
    /\ ret' = Result("deregister_host", None, None, None)
    /\ calls' = << >>
    /\ UNCHANGED registered_host
    /\ RegistryUnchanged

register_root(root) ==
    /\ registered_root' = root
    /\ ret' = Result("register_root", root, None, None)
    /\ calls' = << >>
    /\ UNCHANGED registered_host
    /\ RegistryUnchanged

-----------------------------------------------------------------------------
(* HostContext: the plug-in registry.                                      *)

HostUnchanged ==
    /\ UNCHANGED <<registered_root, registered_host>>
    /\ ProcessUnchanged

\* registered_plugins[superclass] after `if superclass not in ...: ... = list()`
WithKey(d, k) == [x \in DOMAIN d \cup {k} |-> IF x \in DOMAIN d THEN d[x] ELSE << >>]

\* Faulty variant of AppendIfAbsent: the membership test is dropped.
AppendAlways(s, x) == Append(s, x)

\* list.append(x) unless x is in the list already
AppendIfAbsent(s, x) == IF x \in Range(s) THEN s ELSE Append(s, x)

register_plugin(superclass, obj) ==
    /\ Len(GetOrEmpty(registered_plugins, superclass)) < MaxPlugins
       \/ obj \in Range(GetOrEmpty(registered_plugins, superclass))
    /\ registered_plugins' =
         [WithKey(registered_plugins, superclass) EXCEPT
            ![superclass] = AppendIfAbsent(@, obj)]
    /\ ret' = Result("register_plugin", <<superclass, obj>>, None, None)
    /\ calls' = << >>
    /\ UNCHANGED registered_plugin_paths
    /\ HostUnchanged

\* None, or the exception `d[k].remove(x)` raises.
RemoveError(d, k, x) ==
    IF k \notin DOMAIN d THEN "KeyError"
    ELSE IF x \notin Range(d[k]) THEN "ValueError"
    ELSE None

deregister_plugin(superclass, plugin) ==
    LET exc == RemoveError(registered_plugins, superclass, plugin) IN
    /\ registered_plugins' =
         IF exc = None
         THEN [registered_plugins EXCEPT ![superclass] = ListRemove(@, plugin)]
         ELSE registered_plugins
    /\ ret' = Result("deregister_plugin", <<superclass, plugin>>, exc, None)
    /\ calls' = << >>
    /\ UNCHANGED registered_plugin_paths
    /\ HostUnchanged

register_plugin_path(superclass, path) ==
    /\ Len(GetOrEmpty(registered_plugin_paths, superclass)) < MaxPaths
       \/ normpath(path) \in Range(GetOrEmpty(registered_plugin_paths, superclass))
    /\ registered_plugin_paths' =
         [WithKey(registered_plugin_paths, superclass) EXCEPT
            ![superclass] = AppendIfAbsent(@, normpath(path))]
    /\ ret' = Result("register_plugin_path", <<superclass, path>>, None, None)
    /\ calls' = << >>
    /\ UNCHANGED registered_plugins
    /\ HostUnchanged

deregister_plugin_path(superclass, path) ==
    LET exc == RemoveError(registered_plugin_paths, superclass, path) IN
    /\ registered_plugin_paths' =
         IF exc = None
         THEN [registered_plugin_paths EXCEPT ![superclass] = ListRemove(@, path)]
         ELSE registered_plugin_paths
    /\ ret' = Result("deregister_plugin_path", <<superclass, path>>, exc, None)
    /\ calls' = << >>
    /\ UNCHANGED registered_plugins
    /\ HostUnchanged

-----------------------------------------------------------------------------
(* Discovery.                                                              *)

\* Every class reachable through __bases__, the class itself excluded.
RECURSIVE recursive_bases(_)
recursive_bases(klass) ==
    ClassInfo[klass].bases
        \cup UNION {recursive_bases(base) : base \in ClassInfo[klass].bases}

\* Faulty variant of IsPluginOf: the base names are not compared with the
\* name of the superclass.
IsPluginOfAnything(superclass, obj) == ClassInfo[obj].bases # {}

\* The test plugin_from_module applies to each class of a module.
IsPluginOf(superclass, obj) ==
    /\ ClassInfo[obj].bases # {}
    /\ \E base \in recursive_bases(obj) :
          ClassInfo[base].name = ClassInfo[superclass].name

plugin_from_module(superclass, module) ==
    SelectSeq(ModuleDir(module), LAMBDA obj : IsPluginOf(superclass, obj))

\* The plug-ins of the modules under a path, in the order the loops visit them.
PluginsUnder(superclass, path) ==
    LET modules == modules_from_path(path) IN
    Flatten([i \in DOMAIN modules |-> plugin_from_module(superclass, modules[i])])

\* The plug-ins the nested loops of discover visit, in order.
PathCandidates(superclass) ==
    LET paths == GetOrEmpty(registered_plugin_paths, superclass) IN
    Flatten([i \in DOMAIN paths |-> PluginsUnder(superclass, paths[i])])

\* plugins[name] = plugin unless the name is taken: the first one found stays.
RECURSIVE KeepFirst(_, _)
KeepFirst(plugins, found) ==
    IF found = << >> THEN plugins
    ELSE LET n == ClassInfo[Head(found)].name IN
         KeepFirst(IF n \in DOMAIN plugins THEN plugins
                   ELSE [x \in DOMAIN plugins \cup {n} |->
                            IF x = n THEN Head(found) ELSE plugins[x]],
                   Tail(found))

\* Faulty variant of Overwrite: a registered plug-in does not replace a found
\* one of its name.
OverwriteKeepsFound(plugins, registered) == KeepFirst(plugins, registered)

\* plugins[name] = plugin, whatever the name held before.
RECURSIVE Overwrite(_, _)
Overwrite(plugins, registered) ==
    IF registered = << >> THEN plugins
    ELSE LET n == ClassInfo[Head(registered)].name IN
         Overwrite([x \in DOMAIN plugins \cup {n} |->
                       IF x = n THEN Head(registered) ELSE plugins[x]],
                   Tail(registered))

\* Faulty variant of SortedByName: the values in descending order of name.
RECURSIVE SortedDescending(_)
SortedDescending(plugins) ==
    IF DOMAIN plugins = {} THEN << >>
    ELSE LET n == CHOOSE x \in DOMAIN plugins :
                     \A y \in DOMAIN plugins : NameRank(x) >= NameRank(y)
         IN  <<plugins[n]>>
                \o SortedDescending([x \in DOMAIN plugins \ {n} |-> plugins[x]])

\* sorted(plugins.values(), key=lambda Plugin: Plugin.__name__)
RECURSIVE SortedByName(_)
SortedByName(plugins) ==
    IF DOMAIN plugins = {} THEN << >>
    ELSE LET n == CHOOSE x \in DOMAIN plugins :
                     \A y \in DOMAIN plugins : NameRank(x) <= NameRank(y)
         IN  <<plugins[n]>>
                \o SortedByName([x \in DOMAIN plugins \ {n} |-> plugins[x]])

EmptyDict == [x \in {} |-> None]

\* A Photoshop document with no layer.
NoLayers == EmptyDict

\* HostContext.discover(superclass): the list it returns.
Discover(superclass) ==
    SortedByName(
        Overwrite(KeepFirst(EmptyDict, PathCandidates(superclass)),
                  GetOrEmpty(registered_plugins, superclass)))

discover(superclass) ==
    /\ ret' = Result("discover", superclass, None, Discover(superclass))
    /\ calls' = << >>
    /\ HostUnchanged
    /\ RegistryUnchanged

-----------------------------------------------------------------------------
(* HostContext.create                                                      *)

\* What one pass of the try block does for a Plugin of the requested family:
\* None when plugin.process() returned, else the exception caught.
CreatorAttempt(Plugin) ==
    IF registered_host = None
    THEN "AttributeError"          \* None has no maintained_selection
    ELSE IF "maintained_selection" \notin DOMAIN HostMembers[registered_host]
    THEN "AttributeError"
    ELSE IF ClassInfo[Plugin].raises
    THEN "RuntimeError"
    ELSE None

\* Whether the try block got as far as calling plugin.process().
ProcessCalled(Plugin) ==
    /\ registered_host # None
    /\ "maintained_selection" \in DOMAIN HostMembers[registered_host]

\* What the with statement of the try block does for a Plugin of the
\* requested family, in order: the scope is entered, process() is called, the
\* scope is left (also when process() raised). Looking up maintained_selection
\* comes first; when it raises, nothing of the statement runs.
SelectionScope(Plugin) ==
    IF ProcessCalled(Plugin)
    THEN <<[step |-> "enter", of |-> registered_host],
           [step |-> "process", of |-> Plugin],
           [step |-> "exit", of |-> registered_host]>>
    ELSE << >>

\* The loop of create over `todo`: the exception that leaves it (None when
\* it runs to its end), the Plugins whose process() was called and the
\* Plugins appended to `plugins`.
RECURSIVE CreateLoop(_, _, _, _)
CreateLoop(todo, family, called, plugins) ==
    IF todo = << >> THEN [exc |-> None, called |-> called, plugins |-> plugins]
    ELSE LET Plugin == Head(todo) IN
         IF ClassInfo[Plugin].family = NoAttr
         THEN [exc |-> "AttributeError", called |-> called, plugins |-> plugins]
         ELSE IF family # ClassInfo[Plugin].family
         THEN CreateLoop(Tail(todo), family, called, plugins)
         ELSE CreateLoop(Tail(todo), family,
                         IF ProcessCalled(Plugin) THEN Append(called, Plugin)
                         ELSE called,
                         IF CreatorAttempt(Plugin) = None
                         THEN Append(plugins, Plugin) ELSE plugins)

Create(family) ==
    LET loop == CreateLoop(Discover("Creator"), family, << >>, << >>) IN
    [exc    |-> IF loop.exc # None THEN loop.exc
                ELSE IF loop.plugins = << >> THEN "AssertionError"
                ELSE None,
     called |-> loop.called,
     val    |-> IF loop.exc = None /\ loop.plugins # << >>
                THEN loop.plugins[Len(loop.plugins)] ELSE None]

create(family) ==
    /\ ret' = Result("create", family, Create(family).exc, Create(family).val)
    /\ calls' = Create(family).called
    /\ HostUnchanged
    /\ RegistryUnchanged

-----------------------------------------------------------------------------
(* The host context driven by any sequence of calls.                       *)

Init ==
    /\ registered_plugins = EmptyDict
    /\ registered_plugin_paths = EmptyDict
    /\ registered_root = None
    /\ registered_host = None
    /\ _registered_config = None
    /\ Session = EmptyDict
    /\ _registered_event_handlers = EmptyDict
    /\ environ = EmptyDict
    /\ document = NoLayers
    /\ Imported
    /\ ret = Result("__init__", None, None, None)
    /\ calls = << >>

\* Objects a caller hands to register_plugin / deregister_plugin.
PluginObjects(superclass) ==
    IF superclass = "Creator" THEN {"CreateModel@reg", "Helper"} ELSE {"Helper"}

\* Paths a caller hands to register_plugin_path / deregister_plugin_path.
PathInputs(superclass) ==
    IF superclass = "Creator" THEN RawPaths ELSE {<<"p1">>, <<"p1", ".">>}

Next ==
    \/ \E host \in Hosts : register_host(host)
    \/ registered_host_call
    \/ deregister_host
    \/ \E root \in Roots : register_root(root)
    \/ \E superclass \in Superclasses : \E obj \in PluginObjects(superclass) :
          register_plugin(superclass, obj)
    \/ \E superclass \in Superclasses : \E obj \in PluginObjects(superclass) :
          deregister_plugin(superclass, obj)
    \/ \E superclass \in Superclasses : \E path \in PathInputs(superclass) :
          register_plugin_path(superclass, path)
    \/ \E superclass \in Superclasses : \E path \in PathInputs(superclass) :
          deregister_plugin_path(superclass, path)
    \/ \E superclass \in Superclasses : discover(superclass)
    \/ \E family \in Families : create(family)

Spec == Init /\ [][Next]_vars

-----------------------------------------------------------------------------
(* avalon/pipeline.py: loaders and the contexts they are matched against.  *)

\* Loader classes a caller may hand to load, or name in a container: the
\* class attributes the orchestration reads.
LoaderInfo ==
    [L \in {"ModelLoader", "AnyLoader", "LegacyLoader", "LegacyLoader+compat"} |->
        CASE L = "ModelLoader" ->
                [name |-> "ModelLoader", families |-> {"model"},
                 representations |-> {"ma"}, process |-> FALSE, switch |-> TRUE,
                 adapts |-> None]
          [] L = "AnyLoader" ->
                [name |-> "AnyLoader", families |-> {"*"},
                 representations |-> {"*"}, process |-> FALSE, switch |-> FALSE,
                 adapts |-> None]
          [] L = "LegacyLoader" ->
                [name |-> "LegacyLoader", families |-> {"rig"},
                 representations |-> {"ma", "abc"}, process |-> TRUE,
                 switch |-> FALSE, adapts |-> None]
          [] L = "LegacyLoader+compat" ->
                [name |-> "LegacyLoader", families |-> {"rig"},
                 representations |-> {"ma", "abc"}, process |-> TRUE,
                 switch |-> FALSE, adapts |-> "LegacyLoader"]]

\* Loader classes as written by plug-in authors.
LoaderClasses == {L \in DOMAIN LoaderInfo : LoaderInfo[L].adapts = None}

SubsetSchemas == {"avalon-core:subset-3.0", "avalon-core:subset-2.0"}

ContextFamilies == {"model", "rig"}

RepresentationNames == {"ma", "abc"}

\* The `data` of a version document: with or without a "families" key.
VersionDatas ==
    {EmptyDict} \cup {[k \in {"families"} |-> f] : f \in {{}, {"model"}, {"rig"}}}

\* The part of a parenthood context is_compatible_loader reads.
Contexts ==
    {[subset |-> [schema |-> sch, data |-> [families |-> sf]],
      version |-> [data |-> vd],
      representation |-> [name |-> n]] :
        sch \in SubsetSchemas, sf \in {{}, {"model"}, {"model", "rig"}},
        vd \in VersionDatas, n \in RepresentationNames}

\* Faulty variant of is_compatible_loader: either clause suffices.
is_compatible_loader_or(Loader, context) ==
    LET families ==
            IF context.subset.schema = "avalon-core:subset-3.0"
            THEN context.subset.data.families
            ELSE IF "families" \in DOMAIN context.version.data
                 THEN context.version.data.families ELSE {}
    IN  \/ "*" \in Loader.families
        \/ \E family \in families : family \in Loader.families
        \/ "*" \in Loader.representations
        \/ context.representation.name \in Loader.representations

is_compatible_loader(Loader, context) ==
    LET families ==
            IF context.subset.schema = "avalon-core:subset-3.0"
            THEN context.subset.data.families
            ELSE IF "families" \in DOMAIN context.version.data
                 THEN context.version.data.families ELSE {}
        has_family ==
            \/ "*" \in Loader.families
            \/ \E family \in families : family \in Loader.families
        has_representation ==
            \/ "*" \in Loader.representations
            \/ context.representation.name \in Loader.representations
    IN  has_family /\ has_representation

\* The document store: the representations it holds, each with the
\* parenthood context it resolves to. The ancestors of "rep_no_asset",
\* "rep_no_project" and "rep_unlinked" do not all resolve.
DbContext ==
    [r \in {"rep_model_ma", "rep_rig_abc", "rep_no_asset", "rep_no_project",
            "rep_unlinked"} |->
        CASE r \in {"rep_model_ma", "rep_no_asset", "rep_no_project",
                    "rep_unlinked"} ->
                [subset |-> [schema |-> "avalon-core:subset-3.0",
                             data |-> [families |-> {"model"}]],
                 version |-> [data |-> EmptyDict],
                 representation |-> [name |-> "ma"]]
          [] r = "rep_rig_abc" ->
                [subset |-> [schema |-> "avalon-core:subset-2.0",
                             data |-> [families |-> {}]],
                 version |-> [data |-> [k \in {"families"} |-> {"rig"}]],
                 representation |-> [name |-> "abc"]]]

\* Representation ids a caller may pass; "rep_gone" is in no collection.
RepresentationIds == DOMAIN DbContext \cup {"rep_gone"}

\* io.find_one({"_id": id}): the document's id, or None.
find_one(id) == IF id \in DOMAIN DbContext THEN id ELSE None

\* The formal parameters of get_representation_context, none with a default.
get_representation_context_params == <<"representation", "dbcon">>

\* dbcon.parenthood(representation): [exc, resolved], the error it raises or
\* the tuple it returns, given by which of its entries (version, subset,
\* asset, project) are documents rather than None.
dbcon_parenthood(representation) ==
    CASE representation = "rep_unlinked" ->
             [exc |-> "ParenthoodError", resolved |-> << >>]
      [] representation = "rep_no_project" ->
             [exc |-> None, resolved |-> <<TRUE, TRUE, TRUE>>]
      [] representation = "rep_no_asset" ->
             [exc |-> None, resolved |-> <<TRUE, TRUE, FALSE, TRUE>>]
      [] OTHER ->
             [exc |-> None, resolved |-> <<TRUE, TRUE, TRUE, TRUE>>]

\* Faulty variant of AllResolve: the assertion looks at nothing.
AllResolveUnchecked(resolved) == TRUE

\* `assert all([representation, version, subset, asset, project])`
AllResolve(resolved) == \A i \in DOMAIN resolved : resolved[i]

\* The body of get_representation_context.
get_representation_context(representation, dbcon) ==
    LET parents == dbcon_parenthood(representation) IN
    IF find_one(representation) = None
    THEN [exc |-> "AssertionError", val |-> None]
    ELSE IF parents.exc # None
    THEN [exc |-> parents.exc, val |-> None]
    ELSE IF Len(parents.resolved) # 4
    THEN [exc |-> "ValueError", val |-> None]      \* the tuple does not unpack
    ELSE IF ~AllResolve(parents.resolved)
    THEN [exc |-> "AssertionError", val |-> None]
    ELSE [exc |-> None, val |-> DbContext[representation]]

\* A call get_representation_context(*args): Python raises TypeError unless
\* every parameter is given.
get_representation_context_call(args) ==
    IF Len(args) # Len(get_representation_context_params)
    THEN [exc |-> "TypeError", val |-> None]
    ELSE get_representation_context(args[1], args[2])

_make_backwards_compatible_loader(Loader) ==
    IF ~LoaderInfo[Loader].process THEN Loader
    ELSE CHOOSE A \in DOMAIN LoaderInfo : LoaderInfo[A].adapts = Loader

\* pipeline.discover: the body is `pass`.
pipeline_discover(superclass) == None

\* _get_container_loader: the Plugin found (None when the loop ends without
\* one), or the exception raised.
_get_container_loader(container) ==
    LET plugins == pipeline_discover("Loader") IN
    IF plugins = None
    THEN [exc |-> "TypeError", val |-> None]     \* None is not iterable
    ELSE IF \E i \in DOMAIN plugins : LoaderInfo[plugins[i]].name = container.loader
    THEN [exc |-> None,
          val |-> plugins[CHOOSE i \in DOMAIN plugins :
                      /\ LoaderInfo[plugins[i]].name = container.loader
                      /\ \A j \in 1..(i - 1) :
                            LoaderInfo[plugins[j]].name # container.loader]]
    ELSE [exc |-> None, val |-> None]

-----------------------------------------------------------------------------
(* avalon/pipeline.py: load, remove, update, switch.                       *)

ContextUnchanged ==
    /\ UNCHANGED <<registered_plugins, registered_plugin_paths, registered_root,
                  registered_host>>
    /\ ProcessUnchanged

\* An operation that ended by raising exc.
Raise(op, arg, exc) ==
    /\ ret' = Result(op, arg, exc, None)
    /\ calls' = << >>
    /\ ContextUnchanged

\* An operation that constructed Loader and returned what `method` returned.
Invoke(op, arg, Loader, method) ==
    /\ ret' = Result(op, arg, None, <<Loader, method>>)
    /\ calls' = << <<Loader, "__init__">>, <<Loader, method>> >>
    /\ ContextUnchanged

\* get_representation_context(representation, dbcon) called with both
\* arguments.
resolve_context(representation) ==
    LET context == get_representation_context_call(<<representation, "dbcon">>) IN
    /\ ret' = Result("get_representation_context", representation, context.exc,
                     context.val)
    /\ calls' = << >>
    /\ ContextUnchanged

is_compatible_loader_call(Loader, context) ==
    /\ ret' = Result("is_compatible_loader", <<Loader, context>>, None,
                     is_compatible_loader(Loader, context))
    /\ calls' = << >>
    /\ ContextUnchanged

load(Loader, representation) ==
    LET Compat  == _make_backwards_compatible_loader(Loader)
        context == get_representation_context_call(<<representation>>)
        arg     == <<Loader, representation>>
    IN  IF context.exc # None THEN Raise("load", arg, context.exc)
        ELSE IF ~is_compatible_loader(LoaderInfo[Compat], context.val)
        THEN Raise("load", arg, "IncompatibleLoaderError")
        ELSE Invoke("load", arg, Compat, "load")

remove(container) ==
    LET Loader  == _get_container_loader(container)
        context == get_representation_context_call(<<container.representation>>)
    IN  IF Loader.exc # None THEN Raise("remove", container, Loader.exc)
        ELSE IF Loader.val = None THEN Raise("remove", container, "RuntimeError")
        ELSE IF context.exc # None THEN Raise("remove", container, context.exc)
        ELSE Invoke("remove", container,
                    _make_backwards_compatible_loader(Loader.val), "remove")

update(container) ==
    LET Loader  == _get_container_loader(container)
        context == get_representation_context_call(<<container.representation>>)
    IN  IF find_one(container.representation) = None
        THEN Raise("update", container, "AssertionError")
        ELSE IF Loader.exc # None THEN Raise("update", container, Loader.exc)
        ELSE IF Loader.val = None THEN Raise("update", container, "RuntimeError")
        ELSE IF context.exc # None THEN Raise("update", container, context.exc)
        ELSE Invoke("update", container,
                    _make_backwards_compatible_loader(Loader.val), "update")

switch(container, representation) ==
    LET Loader  == _get_container_loader(container)
        context == get_representation_context_call(<<find_one(representation)>>)
        arg     == <<container, representation>>
    IN  IF Loader.exc # None THEN Raise("switch", arg, Loader.exc)
        ELSE IF Loader.val = None THEN Raise("switch", arg, "RuntimeError")
        ELSE IF ~LoaderInfo[Loader.val].switch
        THEN Raise("switch", arg, "RuntimeError")
        ELSE IF context.exc # None THEN Raise("switch", arg, context.exc)
        ELSE IF ~is_compatible_loader(LoaderInfo[Loader.val], context.val)
        THEN Raise("switch", arg, "AssertionError")
        ELSE Invoke("switch", arg,
                    _make_backwards_compatible_loader(Loader.val), "switch")

\* Containers found in a scene: the loader's class name and the id of the
\* representation loaded.
Containers ==
    {[loader |-> n, representation |-> r] :
        n \in {"ModelLoader", "AnyLoader", "NoSuchLoader"},
        r \in RepresentationIds}

\* Loaders handed to is_compatible_loader: every pair of declarations.
LoaderDeclarations ==
    {[families |-> f, representations |-> r] :
        f \in SUBSET ({"*"} \cup ContextFamilies),
        r \in SUBSET {"*", "ma"}}

PipelineNext ==
    \/ \E Loader \in LoaderDeclarations, context \in Contexts :
          is_compatible_loader_call(Loader, context)
    \/ \E representation \in RepresentationIds : resolve_context(representation)
    \/ \E Loader \in LoaderClasses, representation \in RepresentationIds :
          load(Loader, representation)
    \/ \E container \in Containers : remove(container)
    \/ \E container \in Containers : update(container)
    \/ \E container \in Containers, representation \in DOMAIN DbContext :
          switch(container, representation)

SpecPipeline == Init /\ [][PipelineNext]_vars

-----------------------------------------------------------------------------
(* Claims about the host context.                                          *)

\* C1 (as claimed): registered_host() called right after a successful
\* register_host(h) returns h.
C1_RegisteredHostReturnsHost ==
    [][(ret.op = "register_host" /\ ret.exc = None /\ ret'.op = "registered_host")
          => (ret'.exc = None /\ ret'.val = ret.arg)]_vars

\* The Creators create is meant to run for a family: the discovered ones
\* declaring that family.
MatchingCreators(family) ==
    {c \in Range(Discover("Creator")) : ClassInfo[c].family = family}

\* Every discovered plug-in can be asked for its family.
CreatorsWellFormed ==
    \A c \in Range(Discover("Creator")) : ClassInfo[c].family # NoAttr

\* C2 (as claimed): create(family) calls process() on every discovered
\* Creator of that family and on no other, and no exception of a Creator
\* leaves create.
C2_CreateRunsEveryMatchingCreator ==
    (ret.op = "create" /\ CreatorsWellFormed)
        => /\ Range(calls) = MatchingCreators(ret.arg)
           /\ ret.exc \in {None, "AssertionError"}

NoDuplicates(s) == \A i, j \in DOMAIN s : s[i] = s[j] => i = j

NoDuplicatePaths(s) ==
    \A i, j \in DOMAIN s : normpath(s[i]) = normpath(s[j]) => i = j

RegistryHasNoDuplicates ==
    /\ \A S \in DOMAIN registered_plugins : NoDuplicates(registered_plugins[S])
    /\ \A S \in DOMAIN registered_plugin_paths :
          NoDuplicatePaths(registered_plugin_paths[S])

\* A step that registers what is registered already (a path: in normalized
\* form) changes neither list and raises nothing.
ReRegistrationIsNoOp ==
    /\ \A S \in Superclasses, obj \in Classes :
          (/\ ret'.op = "register_plugin" /\ ret'.arg = <<S, obj>>
           /\ obj \in Range(GetOrEmpty(registered_plugins, S)))
          => /\ registered_plugins' = registered_plugins
             /\ registered_plugin_paths' = registered_plugin_paths
             /\ ret'.exc = None
    /\ \A S \in Superclasses, path \in RawPaths :
          (/\ ret'.op = "register_plugin_path" /\ ret'.arg = <<S, path>>
           /\ \E q \in Range(GetOrEmpty(registered_plugin_paths, S)) :
                 normpath(q) = normpath(path))
          => /\ registered_plugins' = registered_plugins
             /\ registered_plugin_paths' = registered_plugin_paths
             /\ ret'.exc = None

\* C8: whatever the calls made, no list of the registry holds an object twice
\* and no path list holds two paths of the same normalized form; registering
\* what is registered already changes nothing and raises nothing.
C8_RegistryIdempotent ==
    /\ []RegistryHasNoDuplicates
    /\ [][ReRegistrationIsNoOp]_vars

\* C8 witness: p1 was registered before p2 and has just been registered
\* again under another spelling.
C8_Witness ==
    /\ ret.op = "register_plugin_path"
    /\ ret.arg = <<"Creator", <<"p2", "..", "p1">>>>
    /\ ret.exc = None
    /\ "Creator" \in DOMAIN registered_plugin_paths
    /\ registered_plugin_paths["Creator"] = << <<"p1">>, <<"p2">> >>

\* The classes a class derives from, in any number of steps.
RECURSIVE BaseClosure(_)
BaseClosure(cs) ==
    LET more == cs \cup UNION {ClassInfo[c].bases : c \in cs}
    IN  IF more = cs THEN cs ELSE BaseClosure(more)

DerivesFromNamed(c, S) ==
    \E b \in BaseClosure(ClassInfo[c].bases) : ClassInfo[b].name = ClassInfo[S].name

\* The classes of the modules under a path that derive from a class named
\* like S.
FoundUnder(S, P) ==
    {c \in UNION {Range(ModuleDir(m)) : m \in Range(modules_from_path(P))} :
        DerivesFromNamed(c, S)}

RegisteredFor(S) == Range(GetOrEmpty(registered_plugins, S))

PathsFor(S) == Range(GetOrEmpty(registered_plugin_paths, S))

\* c is visited by discover(S) before d is.
FoundBefore(S, c, d) ==
    \E i, j \in DOMAIN PathCandidates(S) :
        i < j /\ PathCandidates(S)[i] = c /\ PathCandidates(S)[j] = d

C10_ExplicitOverridesFound ==
    ret.op = "discover"
        => /\ ret.exc = None
           /\ \A obj \in RegisteredFor(ret.arg) :
                (\E P \in PathsFor(ret.arg) : \E c \in FoundUnder(ret.arg, P) :
                    c # obj /\ ClassInfo[c].name = ClassInfo[obj].name)
                => /\ \E d \in Range(ret.val) : ClassInfo[d].name = ClassInfo[obj].name
                   /\ \A d \in Range(ret.val) :
                        ClassInfo[d].name = ClassInfo[obj].name
                            => d \in RegisteredFor(ret.arg)

\* C10 witness: discover(Creator) returned the registered CreateModel while a
\* registered path holds a CreateModel too.
C10_Witness ==
    /\ ret.op = "discover" /\ ret.arg = "Creator"
    /\ "CreateModel@reg" \in Range(ret.val)
    /\ "CreateModel" \in FoundUnder("Creator", <<"p1">>)
    /\ <<"p1">> \in PathsFor("Creator")

-----------------------------------------------------------------------------
(* Claims about the loader orchestration.                                  *)

\* The families a context offers: the subset's under schema subset-3.0, else
\* the version's, none when the version declares none.
ClaimedFamilies(context) ==
    CASE context.subset.schema = "avalon-core:subset-3.0" ->
            context.subset.data.families
      [] OTHER ->
            UNION {context.version.data[k] : k \in DOMAIN context.version.data \cap {"families"}}

ClaimedCompatible(Loader, context) ==
    /\ ("*" \in Loader.families) \/ (ClaimedFamilies(context) \cap Loader.families # {})
    /\ ("*" \in Loader.representations)
          \/ ({context.representation.name} \subseteq Loader.representations)

\* C4 (as claimed): load of a representation the store resolves raises
\* IncompatibleLoaderError, touching no Loader, when the Loader is not
\* compatible with its context, and otherwise constructs the Loader and
\* returns what its load returns.
C4_LoadChecksCompatibility ==
    (ret.op = "load" /\ ret.arg[2] \in DOMAIN DbContext)
        => LET Loader == _make_backwards_compatible_loader(ret.arg[1]) IN
           IF ClaimedCompatible(LoaderInfo[Loader], DbContext[ret.arg[2]])
           THEN /\ ret.exc = None
                /\ ret.val = <<Loader, "load">>
                /\ calls = << <<Loader, "__init__">>, <<Loader, "load">> >>
           ELSE /\ ret.exc = "IncompatibleLoaderError"
                /\ calls = << >>

\* C5: is_compatible_loader is true exactly when the Loader's families hold
\* "*" or a family of the context and the Loader's representations hold "*"
\* or the name of the context's representation.
C5_CompatibleTruthTable ==
    ret.op = "is_compatible_loader"
        => ret.val = ClaimedCompatible(ret.arg[1], ret.arg[2])

\* C5 witness: a Loader without "*" found compatible through the families of
\* the version, the subset not being of schema subset-3.0.
C5_Witness ==
    /\ ret.op = "is_compatible_loader"
    /\ ret.val = TRUE
    /\ "*" \notin ret.arg[1].families \cup ret.arg[1].representations
    /\ ret.arg[2].subset.schema = "avalon-core:subset-2.0"
    /\ ret.arg[2].subset.data.families = {}

\* The class names of the plug-ins discover(Loader) returns to the pipeline.
DiscoveredLoaderNames ==
    IF pipeline_discover("Loader") = None THEN {}
    ELSE {LoaderInfo[L].name : L \in Range(pipeline_discover("Loader"))}

\* C6 (as claimed): remove and switch of a container whose loader name no
\* discovered plug-in carries raise RuntimeError and touch no Loader; so does
\* update when the container's representation is in the store.
C6_UnknownLoaderIsRuntimeError ==
    LET container == IF ret.op = "switch" THEN ret.arg[1] ELSE ret.arg IN
    (/\ ret.op \in {"remove", "update", "switch"}
     /\ ret.op = "update" => container.representation \in DOMAIN DbContext
     /\ container.loader \notin DiscoveredLoaderNames)
        => /\ ret.exc = "RuntimeError"
           /\ calls = << >>

\* C7 (as claimed): switch of a container whose Loader class declares no
\* switch raises RuntimeError, and a Loader's switch is invoked only for a
\* target representation its class is compatible with.
C7_SwitchNeedsCapability ==
    ret.op = "switch"
        => \A L \in LoaderClasses :
              LoaderInfo[L].name = ret.arg[1].loader
              => /\ ~LoaderInfo[L].switch => ret.exc = "RuntimeError"
                 /\ (\E i \in DOMAIN calls : calls[i][2] = "switch")
                       => ClaimedCompatible(LoaderInfo[L], DbContext[ret.arg[2]])

-----------------------------------------------------------------------------
(* Further claims about discovery.                                         *)

\* The list is in strictly ascending order of class name: no name twice.
StrictlyAscendingByName(classes) ==
    \A i, j \in DOMAIN classes :
        i < j => NameRank(ClassInfo[classes[i]].name)
                    < NameRank(ClassInfo[classes[j]].name)

\* C11: the list discover(S) returns is in ascending order of class name
\* and holds no class name twice, and a call of discover leaves the
\* registered plug-ins and the registered paths as they were.
C11_DiscoverSortedAndPure ==
    /\ [](ret.op = "discover" => StrictlyAscendingByName(ret.val))
    /\ [][ret'.op = "discover"
            => /\ registered_plugins' = registered_plugins
               /\ registered_plugin_paths' = registered_plugin_paths]_vars

\* C11 witness: discover(Creator) returned four classes, found and
\* registered ones among them.
C11_Witness ==
    /\ ret.op = "discover" /\ ret.arg = "Creator"
    /\ ret.val = <<"CreateModel@reg", "CreateModelB", "CreateRig", "Helper">>

-----------------------------------------------------------------------------
(* Config resolution: find_config and the class-level cache of HostContext.*)

\* Config modules the interpreter can import: the members each one exposes,
\* with the formal parameter names of each member.
ConfigMembers ==
    [c \in {"cfgA", "cfgB", "cfgNoUninstall", "cfgBare"} |->
        CASE c = "cfgA"           -> [m \in {"install", "uninstall"} |-> << >>]
          [] c = "cfgB"           -> [m \in {"install", "uninstall", "extra"} |->
                                          IF m = "extra" THEN <<"x">> ELSE << >>]
          [] c = "cfgNoUninstall" -> [m \in {"install"} |-> << >>]
          [] c = "cfgBare"        -> [m \in {"version"} |-> << >>]]

ConfigSignatures == [m \in {"install", "uninstall"} |-> << >>]

\* Values the session holds under AVALON_CONFIG; "cfgGone" names no module.
ConfigValues == {None, "", "cfgA", "cfgB", "cfgNoUninstall", "cfgBare", "cfgGone"}

\* Python truth of a session value.
Falsy(value) == value \in {None, ""}

\* Session[key]
SessionItem(key) ==
    IF key \in DOMAIN Session
    THEN [exc |-> None, val |-> Session[key]]
    ELSE [exc |-> "KeyError", val |-> None]

\* importlib.import_module(name)
import_module(name) ==
    IF name \in DOMAIN ConfigMembers
    THEN [exc |-> None, val |-> name]
    ELSE [exc |-> "ImportError", val |-> None]

\* find_config(): the exception raised, the module returned and the names
\* handed to import_module.
find_config ==
    LET item == SessionItem("AVALON_CONFIG") IN
    IF item.exc # None
    THEN [exc |-> item.exc, val |-> None, imported |-> << >>]
    ELSE IF Falsy(item.val)
    THEN [exc |-> "EnvironmentError", val |-> None, imported |-> << >>]
    ELSE [exc |-> import_module(item.val).exc,
          val |-> import_module(item.val).val,
          imported |-> <<item.val>>]

\* Faulty variant of CacheIsEmpty: every read resolves again.
CacheAlwaysEmpty == TRUE

\* `cls._registered_config is None`
CacheIsEmpty == _registered_config = None

\* HostContext.cls_registered_config(): the exception raised, the value
\* returned (the report of a failed validation), the class attribute afterwards
\* and the names handed to import_module.
cls_registered_config ==
    IF ~CacheIsEmpty
    THEN [exc |-> None, val |-> _registered_config,
          cached |-> _registered_config, imported |-> << >>]
    ELSE LET found == find_config IN
         IF found.exc # None
         THEN [exc |-> found.exc, val |-> None,
               cached |-> _registered_config, imported |-> found.imported]
         ELSE LET exc == _validate_signature(ConfigMembers[found.val],
                                             ConfigSignatures) IN
              IF exc # None
              THEN [exc |-> exc,
                    val |-> ValidationReport(ConfigMembers[found.val],
                                             ConfigSignatures),
                    cached |-> _registered_config,
                    imported |-> found.imported]
              ELSE [exc |-> None, val |-> found.val, cached |-> found.val,
                    imported |-> found.imported]

\* HostContext instances of the process; the cache belongs to their class.
HostContexts == {"ctx1", "ctx2"}

ConfigUnchanged ==
    /\ UNCHANGED <<registered_plugins, registered_plugin_paths, registered_root,
                  registered_host, _registered_event_handlers, environ,
                  document, emitted>>
    /\ ModulesUnchanged

\* Reading the property ctx.registered_config.
registered_config(ctx) ==
    LET r == cls_registered_config IN
    /\ _registered_config' = r.cached
    /\ ret' = Result("registered_config", ctx, r.exc, r.val)
    /\ calls' = r.imported
    /\ UNCHANGED Session
    /\ ConfigUnchanged

deregister_config(ctx) ==
    /\ _registered_config' = None
    /\ ret' = Result("deregister_config", ctx, None, None)
    /\ calls' = << >>
    /\ UNCHANGED Session
    /\ ConfigUnchanged

find_config_call ==
    /\ ret' = Result("find_config", None, find_config.exc, find_config.val)
    /\ calls' = find_config.imported
    /\ UNCHANGED <<_registered_config, Session>>
    /\ ConfigUnchanged

\* Session["AVALON_CONFIG"] = value, by the caller.
session_set(value) ==
    /\ Session' = [k \in DOMAIN Session \cup {"AVALON_CONFIG"} |->
                      IF k = "AVALON_CONFIG" THEN value ELSE Session[k]]
    /\ ret' = Result("Session.__setitem__", value, None, None)
    /\ calls' = << >>
    /\ UNCHANGED _registered_config
    /\ ConfigUnchanged

\* Session.pop("AVALON_CONFIG", None), by the caller.
session_pop ==
    /\ Session' = [k \in DOMAIN Session \ {"AVALON_CONFIG"} |-> Session[k]]
    /\ ret' = Result("Session.pop", None, None, None)
    /\ calls' = << >>
    /\ UNCHANGED _registered_config
    /\ ConfigUnchanged

\* Modules handed to _validate_signature: the hosts, the configs, and a host
\* that implements part of a contract naming parameters.
ModuleMembers ==
    [x \in Hosts \cup DOMAIN ConfigMembers \cup {"hostPartial"} |->
        IF x \in Hosts THEN HostMembers[x]
        ELSE IF x \in DOMAIN ConfigMembers THEN ConfigMembers[x]
        ELSE [m \in {"ls", "open", "save"} |->
                 CASE m = "ls"   -> << >>
                   [] m = "open" -> <<"filepath", "force">>
                   [] m = "save" -> <<"name">>]]

\* Contracts handed to _validate_signature: the one of register_host, the one
\* of cls_registered_config, and one whose members take parameters.
SignatureContracts ==
    [x \in {"host", "config", "workio"} |->
        CASE x = "host"   -> HostSignatures
          [] x = "config" -> ConfigSignatures
          [] x = "workio" -> [m \in {"open", "save", "current_file", "has_unsaved"} |->
                                 IF m \in {"open", "save"} THEN <<"filepath">>
                                 ELSE << >>]]

validate_signature_call(module, contract) ==
    LET exc == _validate_signature(ModuleMembers[module],
                                   SignatureContracts[contract]) IN
    /\ ret' = Result("_validate_signature", <<module, contract>>, exc,
                     IF exc = None THEN None
                     ELSE ValidationReport(ModuleMembers[module],
                                           SignatureContracts[contract]))
    /\ calls' = << >>
    /\ UNCHANGED <<_registered_config, Session>>
    /\ ConfigUnchanged

ConfigNext ==
    \/ \E ctx \in HostContexts : registered_config(ctx)
    \/ \E ctx \in HostContexts : deregister_config(ctx)
    \/ find_config_call
    \/ \E value \in ConfigValues : session_set(value)
    \/ session_pop
    \/ \E host \in Hosts : register_host(host)
    \/ \E module \in DOMAIN ModuleMembers, contract \in DOMAIN SignatureContracts :
           validate_signature_call(module, contract)

SpecConfig == Init /\ [][ConfigNext]_vars

-----------------------------------------------------------------------------
(* Claims about signature validation and config resolution.                *)

\* The required members a module lacks, and those it has without all of the
\* required parameter names.
Lacking(module, contract) ==
    {m \in DOMAIN SignatureContracts[contract] : m \notin DOMAIN ModuleMembers[module]}

Mismatched(module, contract) ==
    {m \in DOMAIN SignatureContracts[contract] \cap DOMAIN ModuleMembers[module] :
        \E p \in Range(SignatureContracts[contract][m]) :
            p \notin Range(ModuleMembers[module][m])}

\* What a call that validated `module` against `contract` must have left in
\* ret: acceptance exactly when nothing is lacking or mismatched, otherwise a
\* ValueError whose report names all of both.
Validated(module, contract) ==
    IF Lacking(module, contract) = {} /\ Mismatched(module, contract) = {}
    THEN ret.exc = None
    ELSE /\ ret.exc = "ValueError"
         /\ ret.val.missing = Lacking(module, contract)
         /\ ret.val.invalid = Mismatched(module, contract)

\* C12: a host or a config is accepted only after signature validation; a
\* candidate that lacks a required member, or has one without the required
\* parameter names, is rejected with a ValueError whose report names every
\* missing member and every mismatched member together; a rejected host is not
\* registered and a rejected config is not cached.
C12_ValidationReportsEverything ==
    /\ [](ret.op = "_validate_signature" => Validated(ret.arg[1], ret.arg[2]))
    /\ [](ret.op = "register_host" => Validated(ret.arg, "host"))
    /\ []((ret.op = "registered_config" /\ calls # << >>
              /\ calls[1] \in DOMAIN ConfigMembers)
            => Validated(calls[1], "config"))
    /\ [][(ret'.op = "register_host" /\ ret'.exc # None)
            => registered_root' = registered_root]_vars
    /\ [][(ret'.op = "registered_config" /\ ret'.exc # None)
            => _registered_config' = _registered_config]_vars

\* A module checked against a contract of which it lacks two members and
\* mismatches a third.
C12_Witness ==
    /\ ret.op = "_validate_signature"
    /\ ret.arg = <<"hostPartial", "workio">>
    /\ ret.exc = "ValueError"
    /\ ret.val.missing = {"current_file", "has_unsaved"}
    /\ ret.val.invalid = {"save"}

\* The module a resolution under the current session yields, None when the
\* session names none that imports and validates.
Resolvable ==
    IF /\ "AVALON_CONFIG" \in DOMAIN Session
       /\ Session["AVALON_CONFIG"] \in DOMAIN ConfigMembers
       /\ {"install", "uninstall"} \subseteq
              DOMAIN ConfigMembers[Session["AVALON_CONFIG"]]
    THEN Session["AVALON_CONFIG"]
    ELSE None

\* C13: the resolved config is cached for the whole process: once a read of
\* registered_config has resolved a config, every later read on any context
\* returns that config and imports nothing, whatever the session says by then,
\* until deregister_config clears the cache; a read with an empty cache
\* resolves and validates again; a resolution that fails caches nothing; and
\* nothing but a read or deregister_config changes the cache.
C13_ConfigCachedUntilDeregistered ==
    /\ [][(ret'.op = "registered_config" /\ _registered_config # None)
            => /\ ret'.exc = None
               /\ ret'.val = _registered_config
               /\ calls' = << >>
               /\ _registered_config' = _registered_config]_vars
    /\ [][(ret'.op = "registered_config" /\ _registered_config = None)
            => /\ _registered_config' = Resolvable
               /\ IF Resolvable # None
                  THEN ret'.exc = None /\ ret'.val = Resolvable
                                       /\ calls' = <<Resolvable>>
                  ELSE ret'.exc # None]_vars
    /\ [][ret'.op = "deregister_config" => _registered_config' = None]_vars
    /\ [][ret'.op \notin {"registered_config", "deregister_config"}
            => _registered_config' = _registered_config]_vars

\* A read on one context answers from the cache another context filled, after
\* the session was pointed at a different config.
C13_Witness ==
    /\ ret.op = "registered_config" /\ ret.arg = "ctx2"
    /\ ret.exc = None /\ ret.val = "cfgA" /\ calls = << >>
    /\ _registered_config = "cfgA"
    /\ "AVALON_CONFIG" \in DOMAIN Session /\ Session["AVALON_CONFIG"] = "cfgB"

\* C14: find_config raises EnvironmentError whenever the session has no
\* AVALON_CONFIG key and whenever the key holds an empty value, and imports no
\* module in either case.
C14_NoConfigIsEnvironmentError ==
    (/\ ret.op = "find_config"
     /\ \/ "AVALON_CONFIG" \notin DOMAIN Session
        \/ Falsy(Session["AVALON_CONFIG"]))
        => (ret.exc = "EnvironmentError" /\ calls = << >>)

-----------------------------------------------------------------------------
(* The event bus: on and emit.                                             *)

Events == {"init", "taskChanged"}

\* Callables a caller subscribes, with the exception each raises when called
\* (None when it returns); all of them derive from Exception.
CallbackRaises ==
    [cb \in {"cbOk", "cbRaises", "cbArity"} |->
        CASE cb = "cbOk"     -> None
          [] cb = "cbRaises" -> "RuntimeError"
          [] cb = "cbArity"  -> "TypeError"]

Callbacks == DOMAIN CallbackRaises

\* The orders in which iterating a set may yield its elements.
Orderings(S) ==
    {order \in [1..Cardinality(S) -> S] :
        \A i, j \in 1..Cardinality(S) : i # j => order[i] # order[j]}

\* Faulty variant of Handled: the loop has no try / except.
HandledNever(exc) == FALSE

\* `except Exception` catches exc.
Handled(exc) == TRUE

\* The loop of emit over the callbacks in the order of iteration: the
\* callbacks invoked and the exception that leaves the loop.
RECURSIVE EmitLoop(_, _)
EmitLoop(order, called) ==
    IF order = << >>
    THEN [called |-> called, exc |-> None]
    ELSE LET callback == Head(order)
             exc == CallbackRaises[callback] IN
         IF exc # None /\ ~Handled(exc)
         THEN [called |-> Append(called, callback), exc |-> exc]
         ELSE EmitLoop(Tail(order), Append(called, callback))

EventsUnchanged ==
    /\ UNCHANGED <<registered_plugins, registered_plugin_paths, registered_root,
                  registered_host, _registered_config, Session, environ,
                  document, emitted>>
    /\ ModulesUnchanged

\* _registered_event_handlers.get(event, set())
Handlers(event) ==
    IF event \in DOMAIN _registered_event_handlers
    THEN _registered_event_handlers[event]
    ELSE {}

on(event, callback) ==
    /\ _registered_event_handlers' =
           [e \in DOMAIN _registered_event_handlers \cup {event} |->
               IF e = event
               THEN Handlers(event) \cup {callback}
               ELSE _registered_event_handlers[e]]
    /\ ret' = Result("on", <<event, callback>>, None, None)
    /\ calls' = << >>
    /\ EventsUnchanged

\* The last strong reference to a callback goes away: every WeakSet holding it
\* discards it.
collect(callback) ==
    /\ \E e \in DOMAIN _registered_event_handlers :
           callback \in _registered_event_handlers[e]
    /\ _registered_event_handlers' =
           [e \in DOMAIN _registered_event_handlers |->
               _registered_event_handlers[e] \ {callback}]
    /\ ret' = Result("del", callback, None, None)
    /\ calls' = << >>
    /\ EventsUnchanged

emit(event) ==
    \E order \in Orderings(Handlers(event)) :
        LET r == EmitLoop(order, << >>) IN
        /\ ret' = Result("emit", event, r.exc, None)
        /\ calls' = r.called
        /\ UNCHANGED _registered_event_handlers
        /\ EventsUnchanged

EventsNext ==
    \/ \E event \in Events, callback \in Callbacks : on(event, callback)
    \/ \E callback \in Callbacks : collect(callback)
    \/ \E event \in Events : emit(event)

SpecEvents == Init /\ [][EventsNext]_vars

\* The live callbacks registered for an event.
Subscribed(event) ==
    {callback \in Callbacks :
        /\ event \in DOMAIN _registered_event_handlers
        /\ callback \in _registered_event_handlers[event]}

-----------------------------------------------------------------------------
(* Claims about the selection scope of create.                             *)

\* C16 (as claimed): for every matching Creator, create enters the
\* maintained_selection scope of the registered host, then runs the Creator's
\* process step, then leaves the scope, whether or not the step raised.
C16_ProcessInsideSelectionScope ==
    (ret.op = "create" /\ CreatorsWellFormed)
        => \A c \in MatchingCreators(ret.arg) :
               /\ Len(SelectionScope(c)) = 3
               /\ SelectionScope(c)[1].step = "enter"
               /\ SelectionScope(c)[2] = [step |-> "process", of |-> c]
               /\ SelectionScope(c)[3].step = "exit"

-----------------------------------------------------------------------------
(* Strings and paths. A Python str is the sequence of its characters; the  *)
(* str of None is "None".                                                  *)

NoneStr == <<"N", "o", "n", "e">>

\* s.startswith(p) and s.endswith(p)
StartsWith(s, p) == Len(p) <= Len(s) /\ SubSeq(s, 1, Len(p)) = p

EndsWith(s, p) == Len(p) <= Len(s) /\ SubSeq(s, Len(s) - Len(p) + 1, Len(s)) = p

\* s.rfind(c) + 1: the last position of the character c in s, 0 when absent.
LastIndex(s, c) ==
    IF \E i \in DOMAIN s : s[i] = c
    THEN CHOOSE i \in DOMAIN s : s[i] = c /\ \A j \in DOMAIN s : s[j] = c => j <= i
    ELSE 0

\* os.path.splitext(path): the extension starts at the last dot of the last
\* component, unless only dots precede it there.
splitext(path) ==
    LET sep == LastIndex(path, "/")
        dot == LastIndex(path, ".") IN
    IF dot > sep /\ \E i \in (sep + 1)..(dot - 1) : path[i] # "."
    THEN [root |-> SubSeq(path, 1, dot - 1), ext |-> SubSeq(path, dot, Len(path))]
    ELSE [root |-> path, ext |-> << >>]

\* s.rstrip("/")
RECURSIVE RStripSlash(_)
RStripSlash(s) ==
    IF s # << >> /\ s[Len(s)] = "/" THEN RStripSlash(SubSeq(s, 1, Len(s) - 1))
    ELSE s

\* os.path.split(path)
SplitPath(path) ==
    LET i == LastIndex(path, "/")
        head == SubSeq(path, 1, i) IN
    [head |-> IF RStripSlash(head) = << >> THEN head ELSE RStripSlash(head),
     tail |-> SubSeq(path, i + 1, Len(path))]

\* rest.split(sep): `cur` is the part being read, `acc` the parts read.
RECURSIVE SplitOn(_, _, _, _)
SplitOn(rest, sep, cur, acc) ==
    IF rest = << >> THEN Append(acc, cur)
    ELSE IF Head(rest) = sep THEN SplitOn(Tail(rest), sep, << >>, Append(acc, cur))
    ELSE SplitOn(Tail(rest), sep, Append(cur, Head(rest)), acc)

\* The loop of posixpath.normpath over the components.
RECURSIVE NormLoop(_, _, _)
NormLoop(comps, absolute, new_comps) ==
    IF comps = << >> THEN new_comps
    ELSE LET comp == Head(comps) IN
         IF comp = << >> \/ comp = <<".">>
         THEN NormLoop(Tail(comps), absolute, new_comps)
         ELSE IF \/ comp # <<".", ".">>
                 \/ (~absolute /\ new_comps = << >>)
                 \/ (new_comps # << >> /\ new_comps[Len(new_comps)] = <<".", ".">>)
         THEN NormLoop(Tail(comps), absolute, Append(new_comps, comp))
         ELSE NormLoop(Tail(comps), absolute,
                       IF new_comps = << >> THEN new_comps
                       ELSE SubSeq(new_comps, 1, Len(new_comps) - 1))

\* "/".join(comps)
RECURSIVE JoinSlash(_)
JoinSlash(comps) ==
    IF comps = << >> THEN << >>
    ELSE IF Len(comps) = 1 THEN comps[1]
    ELSE comps[1] \o <<"/">> \o JoinSlash(Tail(comps))

\* os.path.normpath(path) on POSIX.
posix_normpath(path) ==
    IF path = << >> THEN <<".">>
    ELSE LET absolute == path[1] = "/"
             double == Len(path) >= 2 /\ path[2] = "/"
                       /\ ~(Len(path) >= 3 /\ path[3] = "/")
             joined == JoinSlash(NormLoop(SplitOn(path, "/", << >>, << >>),
                                          absolute, << >>))
             whole == (IF ~absolute THEN << >>
                       ELSE IF double THEN <<"/", "/">> ELSE <<"/">>) \o joined IN
         IF whole = << >> THEN <<".">> ELSE whole

\* The files on disk, by their absolute normalised paths.
DiskFiles ==
    { <<"/", "r", "/", "a", ".", "x">>,
      <<"/", "r", "/", "m", ".", "x">>,
      <<"/", "s", "/", "b", ".", "1", ".", "x">> }

\* The directories on disk: the ancestors of the files.
DiskDirs ==
    {<<"/">>} \cup UNION {{SubSeq(f, 1, i - 1) : i \in {j \in DOMAIN f : j > 1 /\ f[j] = "/"}} :
                          f \in DiskFiles}

\* os.path.exists(path); the working directory is "/" .
exists(path) ==
    /\ path # << >>
    /\ LET p == posix_normpath(IF path[1] = "/" THEN path ELSE <<"/">> \o path) IN
       p \in DiskFiles \cup DiskDirs

\* os.listdir(path): the names of the files directly under the directory.
listdir(path) ==
    {SplitPath(f).tail : f \in {g \in DiskFiles :
                                  SplitPath(g).head = posix_normpath(path)}}

-----------------------------------------------------------------------------
(* Templates and format_template_with_optional_keys.                       *)

\* A template is the sequence of its parts: literal text, a replacement field
\* {key} (padded with zeros to `width`, as {key:0>width}), or an optional
\* group <text{key}more> holding one field.
Lit(text) == [kind |-> "lit", key |-> "", text |-> text, more |-> << >>, width |-> 0]

Field(key, width) ==
    [kind |-> "key", key |-> key, text |-> << >>, more |-> << >>, width |-> width]

Optional(text, key, more) ==
    [kind |-> "opt", key |-> key, text |-> text, more |-> more, width |-> 0]

\* format(value, "0>width")
RECURSIVE ZeroPad(_, _)
ZeroPad(value, width) ==
    IF Len(value) >= width THEN value ELSE ZeroPad(<<"0">> \o value, width)

\* s.replace("<", "").replace(">", "")
RECURSIVE StripAngles(_)
StripAngles(s) ==
    IF s = << >> THEN << >>
    ELSE IF Head(s) \in {"<", ">"} THEN StripAngles(Tail(s))
    ELSE <<Head(s)>> \o StripAngles(Tail(s))

\* s.replace("..", ".")
RECURSIVE ReplaceDoubleDots(_)
ReplaceDoubleDots(s) ==
    IF Len(s) < 2 THEN s
    ELSE IF s[1] = "." /\ s[2] = "."
    THEN <<".">> \o ReplaceDoubleDots(SubSeq(s, 3, Len(s)))
    ELSE <<s[1]>> \o ReplaceDoubleDots(Tail(s))

\* format_template_with_optional_keys(data, template): KeyError when a field
\* outside an optional group has no value in data; an optional group whose
\* field has no value is dropped.
format_template_with_optional_keys(data, template) ==
    IF \E i \in DOMAIN template :
           template[i].kind = "key" /\ template[i].key \notin DOMAIN data
    THEN [exc |-> "KeyError", val |-> << >>]
    ELSE LET part(i) ==
                 CASE template[i].kind = "lit" -> template[i].text
                   [] template[i].kind = "key" ->
                          ZeroPad(data[template[i].key], template[i].width)
                   [] template[i].kind = "opt" ->
                          IF template[i].key \in DOMAIN data
                          THEN template[i].text \o data[template[i].key]
                                   \o template[i].more
                          ELSE << >>
             work_file == Flatten([i \in DOMAIN template |-> part(i)]) IN
         [exc |-> None, val |-> ReplaceDoubleDots(StripAngles(work_file))]

-----------------------------------------------------------------------------
(* get_representation_path                                                 *)

\* Templates stored in documents: "{root}/{asset}.x", "{root}/<{task}/>{asset}.x",
\* the empty template and "{root}/{subset}.x".
StoredTemplates ==
    [t \in {"plain", "optional", "empty", "publish"} |->
        CASE t = "plain"    -> <<Field("root", 0), Lit(<<"/">>), Field("asset", 0),
                                 Lit(<<".", "x">>)>>
          [] t = "optional" -> <<Field("root", 0), Lit(<<"/">>),
                                 Optional(<< >>, "task", <<"/">>),
                                 Field("asset", 0), Lit(<<".", "x">>)>>
          [] t = "empty"    -> << >>
          [] t = "publish"  -> <<Field("root", 0), Lit(<<"/">>), Field("subset", 0),
                                 Lit(<<".", "x">>)>>]

\* Literal paths stored in documents: an existing file, a "#" sequence with a
\* member on disk, a "%" sequence without one, a sequence in a directory that
\* does not exist, and a plain name that is not on disk.
StoredPaths ==
    [p \in {"file", "hashes", "percent", "nodir", "gone"} |->
        CASE p = "file"    -> <<"/", "r", "/", ".", "/", "a", ".", "x">>
          [] p = "hashes"  -> <<"/", "s", "/", "b", ".", "#", "#", ".", "x">>
          [] p = "percent" -> <<"/", "s", "/", "c", ".", "%", "d", ".", "x">>
          [] p = "nodir"   -> <<"/", "q", "/", "b", ".", "#", ".", "x">>
          [] p = "gone"    -> <<"/", "s", "/", "d", ".", "x">>]

\* Context mappings stored in documents.
StoredContexts ==
    [c \in {"full", "noAsset", "noTask"} |->
        [k \in (CASE c = "full"    -> {"asset", "task"}
                  [] c = "noAsset" -> {"task"}
                  [] c = "noTask"  -> {"asset"}) |->
            IF k = "asset" THEN <<"a">> ELSE <<"t">>]]

Absent == "absent"

\* The representation document for a choice of what it stores: a dict whose
\* keys are present only when stored.
Representation(template, context, path, parent) ==
    [k \in {"name", "parent", "data"}
           \cup (IF context = Absent THEN {} ELSE {"context"}) |->
        CASE k = "name"    -> <<"x">>
          [] k = "parent"  -> parent
          [] k = "context" -> StoredContexts[context]
          [] k = "data"    ->
                 [d \in (IF template = Absent THEN {} ELSE {"template"})
                        \cup (IF path = Absent THEN {} ELSE {"path"}) |->
                     IF d = "template" THEN StoredTemplates[template]
                     ELSE StoredPaths[path]]]

\* dbcon.parenthood(representation): the ancestors that resolve, nearest first.
parenthood(representation) ==
    LET version == [name |-> <<"3">>]
        subset  == [name |-> <<"m">>]
        asset   == [name |-> <<"a">>]
        project == [name |-> <<"p">>] IN
    CASE representation.parent = "orphan" -> << >>
      [] representation.parent = "noProject" -> <<version, subset, asset>>
      [] representation.parent = "noPublish" -> <<version, subset, asset, project>>
      [] representation.parent = "complete" ->
             <<version, subset, asset,
               [name |-> <<"p">>, publish |-> StoredTemplates["publish"]]>>

Parents == {"orphan", "noProject", "noPublish", "complete"}

\* str(root)
RootStr(root) == IF root = None THEN NoneStr ELSE <<"/", "r">>

\* `normalized_path if os.path.exists(normalized_path) else path`
NormalizedIfExists(path) ==
    IF exists(posix_normpath(path)) THEN posix_normpath(path) ELSE path

\* Each tier yields [exc, found, path, representation, consulted]: the
\* exception it raises, whether it returns a str, the str, the document as the
\* tier leaves it, and the lookups it made outside the document.
TierResult(exc, found, path, representation, consulted) ==
    [exc |-> exc, found |-> found, path |-> path,
     representation |-> representation, consulted |-> consulted]

path_from_represenation(representation, root) ==
    IF "template" \notin DOMAIN representation.data
    THEN TierResult(None, FALSE, << >>, representation, << >>)
    ELSE IF "context" \notin DOMAIN representation
    THEN TierResult(None, FALSE, << >>, representation, << >>)
    ELSE LET context == [k \in DOMAIN representation.context \cup {"root"} |->
                            IF k = "root" THEN RootStr(root)
                            ELSE representation.context[k]]
             after == [representation EXCEPT !.context = context]
             formatted == format_template_with_optional_keys(
                              context, representation.data.template) IN
         IF formatted.exc # None
         THEN TierResult(None, FALSE, << >>, after, << >>)
         ELSE IF formatted.val = << >>
         THEN TierResult(None, TRUE, << >>, after, << >>)
         ELSE TierResult(None, TRUE, NormalizedIfExists(formatted.val), after, << >>)

path_from_config(representation, root) ==
    LET parents == parenthood(representation) IN
    IF Len(parents) # 4
    THEN TierResult(None, FALSE, << >>, representation, <<"parenthood">>)
    ELSE IF "publish" \notin DOMAIN parents[4]
    THEN TierResult(None, FALSE, << >>, representation, <<"parenthood">>)
    ELSE LET data == [k \in {"root", "asset", "silo", "hierarchy", "subset",
                              "version", "representation", "family", "user",
                              "app", "task"} |->
                         CASE k = "root" -> RootStr(root)
                           [] k = "asset" -> parents[3].name
                           [] k = "subset" -> parents[2].name
                           [] k = "version" -> parents[1].name
                           [] k = "representation" -> representation.name
                           [] k = "user" -> <<"u">>
                           [] k \in {"app", "task"} -> << >>
                           [] k \in {"silo", "hierarchy", "family"} -> NoneStr]
             formatted == format_template_with_optional_keys(data, parents[4].publish) IN
         IF formatted.exc # None
         THEN TierResult(None, FALSE, << >>, representation, <<"parenthood">>)
         ELSE TierResult(None, TRUE, NormalizedIfExists(formatted.val),
                         representation, <<"parenthood">>)

\* Faulty variant of path_from_data: the stored path is returned unchecked.
path_from_data_unchecked(representation) ==
    IF "path" \notin DOMAIN representation.data
    THEN TierResult(None, FALSE, << >>, representation, << >>)
    ELSE TierResult(None, TRUE, representation.data.path, representation, << >>)

path_from_data(representation) ==
    IF "path" \notin DOMAIN representation.data
    THEN TierResult(None, FALSE, << >>, representation, << >>)
    ELSE LET path == representation.data.path
             dir_path == SplitPath(path).head
             file_name == SplitPath(path).tail
             base_name == splitext(file_name).root
             ext == splitext(file_name).ext
             hashes == \E i \in DOMAIN base_name : base_name[i] = "#"
             percent == \E i \in DOMAIN base_name : base_name[i] = "%"
             \* the first non-empty part of base_name.split("#"), or the
             \* first part of base_name.split("%")
             first(c, skip) ==
                 LET from == IF skip
                             THEN CHOOSE i \in DOMAIN base_name :
                                      /\ base_name[i] # c
                                      /\ \A j \in 1..(i - 1) : base_name[j] = c
                             ELSE 1
                     upto == IF \E i \in from..Len(base_name) : base_name[i] = c
                             THEN CHOOSE i \in from..Len(base_name) :
                                      /\ base_name[i] = c
                                      /\ \A j \in from..(i - 1) : base_name[j] # c
                             ELSE Len(base_name) + 1
                 IN SubSeq(base_name, from, upto - 1)
             only_hashes == \A i \in DOMAIN base_name : base_name[i] = "#"
             filename_start == IF hashes THEN first("#", TRUE) ELSE first("%", FALSE)
         IN
         IF exists(path)
         THEN TierResult(None, TRUE, posix_normpath(path), representation, << >>)
         ELSE IF ~exists(dir_path)
         THEN TierResult(None, FALSE, << >>, representation, << >>)
         ELSE IF (~hashes /\ ~percent) \/ (hashes /\ only_hashes)
         THEN TierResult(None, FALSE, << >>, representation, << >>)
         ELSE IF \E _file \in listdir(dir_path) :
                     StartsWith(_file, filename_start) /\ EndsWith(_file, ext)
         THEN TierResult(None, TRUE, posix_normpath(path), representation,
                         <<"listdir">>)
         ELSE TierResult(None, FALSE, << >>, representation, <<"listdir">>)

\* Faulty variant of TierOrder: the literal path is tried first.
TierOrderPathFirst == <<"data", "representation", "config">>

\* `path_from_represenation() or path_from_config() or path_from_data()`
TierOrder == <<"representation", "config", "data">>

Tier(name, representation, root) ==
    CASE name = "representation" -> path_from_represenation(representation, root)
      [] name = "config" -> path_from_config(representation, root)
      [] name = "data" -> path_from_data(representation)

\* The chain of `or`: the tiers run in order until one returns a non-empty
\* str; each runs on the document as the one before left it.
RECURSIVE OrChain(_, _, _, _)
OrChain(tiers, representation, root, consulted) ==
    LET rest(r) ==
            LET seen == consulted \o <<Head(tiers)>> \o r.consulted IN
            IF (r.found /\ r.path # << >>) \/ Len(tiers) = 1
            THEN [r EXCEPT !.consulted = seen]
            ELSE OrChain(Tail(tiers), r.representation, root, seen)
    \* the tier runs once; what follows works on the value it returned
    IN CHOOSE out \in {rest(r) : r \in {Tier(Head(tiers), representation, root)}} :
           TRUE

\* get_representation_path(representation, root): root is None when the
\* caller leaves it out, as registered_root() returns None.
get_representation_path(representation, root) ==
    OrChain(TierOrder, representation, root, << >>)

PathUnchanged ==
    /\ UNCHANGED <<registered_plugins, registered_plugin_paths, registered_root,
                  registered_host, _registered_config, Session,
                  _registered_event_handlers, environ, document, emitted>>
    /\ ModulesUnchanged

\* The arguments of a call: what the document stores, and the root.
RepresentationInputs ==
    [template : DOMAIN StoredTemplates \cup {Absent},
     context : DOMAIN StoredContexts \cup {Absent},
     path : DOMAIN StoredPaths \cup {Absent},
     parent : Parents,
     root : Roots \cup {None}]

\* A caller about to call with arguments of its choice.
PathsInit ==
    /\ registered_plugins = EmptyDict
    /\ registered_plugin_paths = EmptyDict
    /\ registered_root = None
    /\ registered_host = None
    /\ _registered_config = None
    /\ Session = EmptyDict
    /\ _registered_event_handlers = EmptyDict
    /\ environ = EmptyDict
    /\ document = NoLayers
    /\ Imported
    /\ \E input \in RepresentationInputs : ret = Result("call", input, None, None)
    /\ calls = << >>

get_representation_path_call ==
    LET r == get_representation_path(
                 Representation(ret.arg.template, ret.arg.context, ret.arg.path,
                                ret.arg.parent), ret.arg.root) IN
    /\ ret.op = "call"
    /\ ret' = Result("get_representation_path", ret.arg, r.exc,
                     [found |-> r.found, path |-> r.path,
                      representation |-> r.representation])
    /\ calls' = r.consulted
    /\ PathUnchanged

SpecPaths == PathsInit /\ [][get_representation_path_call]_vars

-----------------------------------------------------------------------------
(* Claims about get_representation_path.                                   *)

\* The document the last call of get_representation_path was given.
GivenRepresentation ==
    Representation(ret.arg.template, ret.arg.context, ret.arg.path, ret.arg.parent)

\* A tier yields a path when it returns a non-empty str.
Yields(tier) == tier.found /\ tier.path # << >>

-----------------------------------------------------------------------------
(* last_workfile_with_version                                              *)

\* The characters of file names, in the order of their code points.
Alphabet ==
    <<".", "0", "1", "2", "3", "4", "5", "6", "7", "8", "9", "_",
      "a", "b", "c", "e", "f", "i", "m", "n", "s", "v", "x">>

Digits == {"0", "1", "2", "3", "4", "5", "6", "7", "8", "9"}

\* a < b for str, as sorted() compares.
StrLess(a, b) ==
    LET ord(c) == CHOOSE i \in DOMAIN Alphabet : Alphabet[i] = c IN
    \E k \in 1..(Len(a) + 1) :
        /\ k <= Len(b)
        /\ \A j \in 1..(k - 1) : a[j] = b[j]
        /\ (k = Len(a) + 1 \/ ord(a[k]) < ord(b[k]))

\* int(s) for a str of digits.
RECURSIVE ToInt(_)
ToInt(s) ==
    IF s = << >> THEN 0
    ELSE 10 * ToInt(SubSeq(s, 1, Len(s) - 1))
             + ((CHOOSE i \in DOMAIN Alphabet : Alphabet[i] = s[Len(s)]) - 2)

\* File-name templates: "scene_v{version:0>3}.ma", "scene_v{version:0>3}.{ext}",
\* "{name}_v{version:0>3}<_{comment}>.{ext}" and "scene_v001", which has no
\* version field.
WorkTemplates ==
    [t \in {"literalExt", "extField", "comment", "noVersion"} |->
        CASE t = "literalExt" -> <<Lit(<<"s", "c", "e", "n", "e", "_", "v">>), Field("version", 3), Lit(<<".", "m", "a">>)>>
          [] t = "extField"   -> <<Lit(<<"s", "c", "e", "n", "e", "_", "v">>), Field("version", 3), Lit(<<".">>),
                                   Field("ext", 0)>>
          [] t = "comment"    -> <<Field("name", 0), Lit(<<"_", "v">>),
                                   Field("version", 3),
                                   Optional(<<"_">>, "comment", << >>),
                                   Lit(<<".">>), Field("ext", 0)>>
          [] t = "noVersion"  -> <<Lit(<<"s", "c", "e", "n", "e", "_", "v", "0", "0", "1">>)>>]

\* Names a work directory may hold: scene_v001.ma, scene_v002.ma,
\* scene_v010.ma, scene_v011.mb and scene_v012_fix.ma.
WorkFiles ==
    { <<"s", "c", "e", "n", "e", "_", "v", "0", "0", "1", ".", "m", "a">>,
      <<"s", "c", "e", "n", "e", "_", "v", "0", "0", "2", ".", "m", "a">>,
      <<"s", "c", "e", "n", "e", "_", "v", "0", "1", "0", ".", "m", "a">>,
      <<"s", "c", "e", "n", "e", "_", "v", "0", "1", "1", ".", "m", "b">>,
      <<"s", "c", "e", "n", "e", "_", "v", "0", "1", "2", "_", "f", "i", "x", ".", "m", "a">> }

WorkExtensions ==
    [e \in {"ma", "maOrMb", "noDot"} |->
        CASE e = "ma"     -> <<<<".", "m", "a">>>>
          [] e = "maOrMb" -> <<<<".", "m", "a">>, <<".", "m", "b">>>>
          [] e = "noDot"  -> <<<<"m", "a">>>>]

\* Fill data: with a name and an extension, without the name, without the
\* extension, and with a comment besides.
FillData ==
    [d \in {"named", "unnamed", "noExt", "commented"} |->
        [k \in (CASE d = "named" -> {"name", "ext"}
                  [] d = "unnamed" -> {"ext"}
                  [] d = "noExt" -> {"name"}
                  [] d = "commented" -> {"name", "ext", "comment"}) |->
            CASE k = "name" -> <<"s", "c", "e", "n", "e">>
              [] k = "ext" -> <<"m", "a">>
              [] k = "comment" -> <<"f", "i", "x">>]]

\* The three re.sub calls: every optional group becomes .*? ; the text from
\* the first {version to the last } of the template becomes ([0-9]+) ; a
\* {comment} field left standing becomes .+? .
VersionRegex(template) ==
    LET fields == {i \in DOMAIN template : template[i].kind = "key"}
        versions == {i \in fields : template[i].key = "version"}
        first == CHOOSE i \in versions : \A j \in versions : i <= j
        last == CHOOSE i \in fields : \A j \in fields : j <= i
        sub(i) == IF template[i].kind = "opt" THEN Lit(<<".", "*", "?">>)
                  ELSE IF template[i].kind = "key" /\ template[i].key = "comment"
                  THEN Lit(<<".", "+", "?">>)
                  ELSE template[i]
        whole == [i \in DOMAIN template |-> sub(i)] IN
    IF versions = {} THEN whole
    ELSE SubSeq(whole, 1, first - 1)
             \o <<Lit(<<"(", "[", "0", "-", "9", "]", "+", ")">>)>>
             \o SubSeq(whole, last + 1, Len(whole))

\* "(?:" + "|".join(_ext) + ")", each extension given its leading dot and a
\* backslash before it.
RECURSIVE ExtensionRegex(_, _)
ExtensionRegex(extensions, acc) ==
    IF extensions = << >> THEN <<"(", "?", ":">> \o acc \o <<")">>
    ELSE LET ext == IF StartsWith(Head(extensions), <<".">>) THEN Head(extensions)
                    ELSE <<".">> \o Head(extensions) IN
         ExtensionRegex(Tail(extensions),
                        (IF acc = << >> THEN acc ELSE acc \o <<"|">>)
                            \o <<"\\">> \o ext)

\* re.match(pattern, s) for the patterns built here: ^ and $, the group
\* ([0-9]+), the lazy .*? and .+?, a group (?:a|b) of alternatives, a
\* backslash before a literal character, the dot for any character, and
\* literal characters. Alternatives are tried in the order of backtracking;
\* `group` is what the capturing group holds.
RECURSIVE re_match(_, _, _)
re_match(pattern, s, group) ==
    LET NoMatch == [ok |-> FALSE, group |-> << >>]
        drop(str, k) == SubSeq(str, k + 1, Len(str)) IN
    IF pattern = << >> THEN [ok |-> TRUE, group |-> group]
    ELSE IF Head(pattern) = "^" THEN re_match(Tail(pattern), s, group)
    ELSE IF Head(pattern) = "$"
    THEN IF s = << >> THEN re_match(Tail(pattern), s, group) ELSE NoMatch
    ELSE IF StartsWith(pattern, <<"(", "[", "0", "-", "9", "]", "+", ")">>)
    THEN LET ks == {k \in 1..Len(s) :
                       /\ \A j \in 1..k : s[j] \in Digits
                       /\ re_match(drop(pattern, 8), drop(s, k), SubSeq(s, 1, k)).ok} IN
         IF ks = {} THEN NoMatch
         ELSE LET k == CHOOSE x \in ks : \A y \in ks : y <= x IN
              re_match(drop(pattern, 8), drop(s, k), SubSeq(s, 1, k))
    ELSE IF StartsWith(pattern, <<".", "*", "?">>) \/ StartsWith(pattern, <<".", "+", "?">>)
    THEN LET ks == {k \in (IF pattern[2] = "*" THEN 0 ELSE 1)..Len(s) :
                       re_match(drop(pattern, 3), drop(s, k), group).ok} IN
         IF ks = {} THEN NoMatch
         ELSE LET k == CHOOSE x \in ks : \A y \in ks : x <= y IN
              re_match(drop(pattern, 3), drop(s, k), group)
    ELSE IF StartsWith(pattern, <<"(", "?", ":">>)
    THEN LET close == CHOOSE i \in DOMAIN pattern :
                          pattern[i] = ")" /\ \A j \in 1..(i - 1) : pattern[j] # ")"
             alts == SplitOn(SubSeq(pattern, 4, close - 1), "|", << >>, << >>)
             oks == {i \in DOMAIN alts :
                        re_match(alts[i] \o drop(pattern, close), s, group).ok} IN
         IF oks = {} THEN NoMatch
         ELSE LET i == CHOOSE x \in oks : \A y \in oks : x <= y IN
              re_match(alts[i] \o drop(pattern, close), s, group)
    ELSE IF Head(pattern) = "\\"
    THEN IF s # << >> /\ Head(s) = pattern[2]
         THEN re_match(drop(pattern, 2), Tail(s), group) ELSE NoMatch
    ELSE IF s # << >> /\ (Head(pattern) = "." \/ Head(pattern) = Head(s))
    THEN re_match(Tail(pattern), Tail(s), group)
    ELSE NoMatch

\* The body of the loop for a file name that matched: output_filename and
\* version afterwards.
KeepLatest(best, filename, file_version) ==
    IF ~best.has_version \/ file_version >= best.version
    THEN [found |-> TRUE, filename |-> filename,
          has_version |-> TRUE, version |-> file_version]
    ELSE best

\* The loop over sorted(filenames).
RECURSIVE LatestLoop(_, _, _)
LatestLoop(filenames, pattern, best) ==
    IF filenames = << >> THEN best
    ELSE LET match == re_match(pattern, Head(filenames), << >>) IN
         LatestLoop(Tail(filenames), pattern,
                    IF match.ok
                    THEN KeepLatest(best, Head(filenames), ToInt(match.group))
                    ELSE best)

\* last_workfile_with_version(workdir, file_template, fill_data, extensions),
\* the work directory given by whether it exists and the names it holds.
\* The result is (output_filename, version): `found` and `has_version` tell
\* which of the two is not None.
last_workfile_with_version(workdir, file_template, fill_data, extensions) ==
    LET nothing == [found |-> FALSE, filename |-> << >>,
                    has_version |-> FALSE, version |-> 0]
        filenames == {f \in workdir.files : splitext(f).ext \in Range(extensions)}
        sorted == CHOOSE order \in Orderings(filenames) :
                      \A i, j \in DOMAIN order : i < j => StrLess(order[i], order[j])
        partially_filled == format_template_with_optional_keys(
                                fill_data, VersionRegex(file_template))
        pattern == <<"^">> \o partially_filled.val
                       \o ExtensionRegex(extensions, << >>) \o <<"$">>
        has_group == \E i \in DOMAIN file_template :
                         file_template[i].kind = "key"
                         /\ file_template[i].key = "version" IN
    IF ~workdir.exists THEN [exc |-> None, val |-> nothing]
    ELSE IF partially_filled.exc # None
    THEN [exc |-> partially_filled.exc, val |-> nothing]
    ELSE IF ~has_group /\ \E f \in filenames : re_match(pattern, f, << >>).ok
    THEN [exc |-> "IndexError", val |-> nothing]
    ELSE [exc |-> None, val |-> LatestLoop(sorted, pattern, nothing)]

\* The arguments of a call.
WorkInputs ==
    [workdir : [exists : {TRUE}, files : SUBSET WorkFiles]
                   \cup [exists : {FALSE}, files : {{}}],
     file_template : DOMAIN WorkTemplates,
     fill_data : DOMAIN FillData,
     extensions : DOMAIN WorkExtensions]

\* A caller about to call with arguments of its choice.
WorkInit ==
    /\ registered_plugins = EmptyDict
    /\ registered_plugin_paths = EmptyDict
    /\ registered_root = None
    /\ registered_host = None
    /\ _registered_config = None
    /\ Session = EmptyDict
    /\ _registered_event_handlers = EmptyDict
    /\ environ = EmptyDict
    /\ document = NoLayers
    /\ Imported
    /\ \E input \in WorkInputs : ret = Result("call", input, None, None)
    /\ calls = << >>

last_workfile_with_version_call ==
    LET r == last_workfile_with_version(
                 ret.arg.workdir, WorkTemplates[ret.arg.file_template],
                 FillData[ret.arg.fill_data],
                 WorkExtensions[ret.arg.extensions]) IN
    /\ ret.op = "call"
    /\ ret' = Result("last_workfile_with_version", ret.arg, r.exc, r.val)
    /\ calls' = << >>
    /\ PathUnchanged

\* The path of the work directory.
WorkdirPath == <<"/", "w">>

\* last_workfile(workdir, file_template, fill_data, extensions, full_path):
\* [exc, val, fill_data], the exception, the str returned and the caller's
\* fill_data after the call (the function writes to a deep copy of it).
last_workfile(workdir, file_template, fill_data, extensions, full_path) ==
    LET last == last_workfile_with_version(workdir, file_template, fill_data,
                                           extensions)
        data == [k \in (DOMAIN fill_data \cup {"version", "ext"}) \ {"comment"} |->
                    CASE k = "version" -> <<"1">>
                      [] k = "ext" ->
                             IF "ext" \in DOMAIN fill_data /\ fill_data.ext # << >>
                             THEN fill_data.ext ELSE extensions[1]
                      [] OTHER -> fill_data[k]]
        formatted == format_template_with_optional_keys(data, file_template)
        \* os.path.join(workdir, filename)
        out(filename) == IF full_path THEN WorkdirPath \o <<"/">> \o filename
                         ELSE filename
        raised(exc) == [exc |-> exc, val |-> << >>, fill_data |-> fill_data] IN
    IF last.exc # None THEN raised(last.exc)
    ELSE IF last.val.found
    THEN [exc |-> None, val |-> out(last.val.filename), fill_data |-> fill_data]
    ELSE IF formatted.exc # None THEN raised(formatted.exc)
    ELSE [exc |-> None, val |-> out(formatted.val), fill_data |-> fill_data]

last_workfile_call ==
    \E full_path \in BOOLEAN :
        LET r == last_workfile(
                     ret.arg.workdir, WorkTemplates[ret.arg.file_template],
                     FillData[ret.arg.fill_data],
                     WorkExtensions[ret.arg.extensions], full_path) IN
        /\ ret.op = "call"
        /\ ret' = Result("last_workfile",
                         [workdir |-> ret.arg.workdir,
                          file_template |-> ret.arg.file_template,
                          fill_data |-> ret.arg.fill_data,
                          extensions |-> ret.arg.extensions,
                          full_path |-> full_path],
                         r.exc, [filename |-> r.val, fill_data |-> r.fill_data])
        /\ calls' = << >>
        /\ PathUnchanged

WorkfilesNext == last_workfile_with_version_call \/ last_workfile_call

SpecWorkfiles == WorkInit /\ [][WorkfilesNext]_vars

-----------------------------------------------------------------------------
(* Claims about last_workfile_with_version.                                *)

\* The version numbers a file name can be read with under a template: the
\* name is the template filled with the fill data, some run of digits as the
\* version, one of the extensions as {ext}, and no comment or the comment
\* "fix".
VersionsUnder(name, input) ==
    LET runs == {r \in {SubSeq(name, i, j) : i \in DOMAIN name, j \in DOMAIN name} :
                    r # << >> /\ \A k \in DOMAIN r : r[k] \in Digits}
        fill == FillData[input.fill_data]
        data(version, ext, commented) ==
            [k \in ((DOMAIN fill \ {"comment"}) \cup {"version", "ext"})
                   \cup (IF commented THEN {"comment"} ELSE {}) |->
                CASE k = "version" -> version
                  [] k = "ext" -> IF StartsWith(ext, <<".">>) THEN Tail(ext) ELSE ext
                  [] k = "comment" -> <<"f", "i", "x">>
                  [] OTHER -> fill[k]]
        filled(version, ext, commented) ==
            format_template_with_optional_keys(data(version, ext, commented),
                                               WorkTemplates[input.file_template]) IN
    {ToInt(r) : r \in {x \in runs :
        \E ext \in Range(WorkExtensions[input.extensions]), commented \in BOOLEAN :
            /\ filled(x, ext, commented).exc = None
            /\ filled(x, ext, commented).val = name}}

\* The files of the work directory with one of the extensions whose name
\* matches the template.
MatchingWorkfiles(input) ==
    {f \in input.workdir.files :
        /\ splitext(f).ext \in Range(WorkExtensions[input.extensions])
        /\ VersionsUnder(f, input) # {}}

\* C19 (as claimed): among the files of the work directory that have one of
\* the extensions and match the template, last_workfile_with_version returns
\* one with the highest version number, together with that number; for the
\* files scene_v001.ma, scene_v002.ma, scene_v010.ma and the template
\* scene_v{version:0>3}.ma it returns ("scene_v010.ma", 10).
C19_HighestVersionWins ==
    (/\ ret.op = "last_workfile_with_version" /\ ret.exc = None
     /\ MatchingWorkfiles(ret.arg) # {})
        => /\ ret.val.found /\ ret.val.has_version
           /\ ret.val.filename \in MatchingWorkfiles(ret.arg)
           /\ ret.val.version \in VersionsUnder(ret.val.filename, ret.arg)
           /\ \A f \in MatchingWorkfiles(ret.arg) :
                  \A v \in VersionsUnder(f, ret.arg) : v <= ret.val.version
           /\ (/\ ret.arg.file_template = "literalExt"
               /\ ret.arg.workdir.files = {<<"s", "c", "e", "n", "e", "_", "v", "0", "0", "1", ".", "m", "a">>,
                                           <<"s", "c", "e", "n", "e", "_", "v", "0", "0", "2", ".", "m", "a">>,
                                           <<"s", "c", "e", "n", "e", "_", "v", "0", "1", "0", ".", "m", "a">>})
                  => (/\ ret.val.filename = <<"s", "c", "e", "n", "e", "_", "v", "0", "1", "0", ".", "m", "a">>
                      /\ ret.val.version = 10)

\* C20 (as claimed): last_workfile_with_version returns (None, None) when the
\* work directory does not exist and when no file in it matches the template
\* and the extensions; in every other case it returns a file name and a
\* version, never only one of the two.
C20_BothOrNeither ==
    (ret.op = "last_workfile_with_version" /\ ret.exc = None)
        => /\ ret.val.found = ret.val.has_version
           /\ ret.val.found
                  = (ret.arg.workdir.exists /\ MatchingWorkfiles(ret.arg) # {})

\* The name a first workfile gets: the template filled with version 1 and no
\* comment, the extension from the fill data or else the first of the
\* extensions.
FirstWorkfile(input) ==
    LET fill == FillData[input.fill_data]
        ext == IF "ext" \in DOMAIN fill THEN fill.ext
               ELSE WorkExtensions[input.extensions][1]
        data == [k \in (DOMAIN fill \cup {"version", "ext"}) \ {"comment"} |->
                    CASE k = "version" -> <<"1">>
                      [] k = "ext" -> IF StartsWith(ext, <<".">>) THEN Tail(ext) ELSE ext
                      [] OTHER -> fill[k]] IN
    format_template_with_optional_keys(data, WorkTemplates[input.file_template]).val

\* C21 (as claimed): when no matching workfile exists, last_workfile returns
\* the template filled with version 1, without any comment, with the
\* extension of the fill data or else the first of the extensions (the
\* template scene_v{version:0>3}.{ext} with [".ma"] on an empty directory
\* gives "scene_v001.ma"); when a matching workfile exists it returns the
\* name last_workfile_with_version finds, a matching workfile; the caller's
\* fill_data is not modified.
C21_FirstOrLastWorkfile ==
    (ret.op = "last_workfile" /\ ret.exc = None /\ ~ret.arg.full_path)
        => /\ ret.val.fill_data = FillData[ret.arg.fill_data]
           /\ MatchingWorkfiles(ret.arg) = {}
                  => ret.val.filename = FirstWorkfile(ret.arg)
           /\ (/\ ret.arg.file_template = "extField"
               /\ ret.arg.extensions = "ma"
               /\ ret.arg.workdir.files = {})
                  => ret.val.filename = <<"s", "c", "e", "n", "e", "_", "v", "0", "0", "1", ".", "m", "a">>
           /\ MatchingWorkfiles(ret.arg) # {}
                  => ret.val.filename \in MatchingWorkfiles(ret.arg)

-----------------------------------------------------------------------------
(* should_start_last_workfile                                              *)

\* str.lower() on the letters that occur here.
ToLower ==
    ("A" :> "a") @@ ("E" :> "e") @@ ("I" :> "i") @@ ("M" :> "m")
        @@ ("N" :> "n") @@ ("O" :> "o") @@ ("R" :> "r") @@ ("S" :> "s")
        @@ ("T" :> "t") @@ ("U" :> "u") @@ ("Y" :> "y")

lower(s) ==
    [i \in DOMAIN s |-> IF s[i] \in DOMAIN ToLower THEN ToLower[s[i]] ELSE s[i]]

\* str.strip()
RECURSIVE strip(_)
strip(s) ==
    IF s = << >> THEN s
    ELSE IF Head(s) = " " THEN strip(Tail(s))
    ELSE IF s[Len(s)] = " " THEN strip(SubSeq(s, 1, Len(s) - 1))
    ELSE s

\* Python's True and False.
PyTrue == "True"

PyFalse == "False"

\* Values of AVALON_OPEN_LAST_WORKFILE: "1", "TRUE", " yes", "0", "No",
\* "false", "2" and "".
OverrideValues ==
    { <<"1">>, <<"T", "R", "U", "E">>, <<" ", "y", "e", "s">>, <<"0">>,
      <<"N", "o">>, <<"f", "a", "l", "s", "e">>, <<"2">>, << >> }

\* Faulty variant of OverrideTrue: "yes" is not understood.
OverrideTrueShort == { <<"t", "r", "u", "e">>, <<"1">> }

OverrideTrue == { <<"t", "r", "u", "e">>, <<"y", "e", "s">>, <<"1">> }

\* default_output, from os.environ.get("AVALON_OPEN_LAST_WORKFILE")
DefaultOutput(env) ==
    IF "AVALON_OPEN_LAST_WORKFILE" \notin DOMAIN env THEN PyFalse
    ELSE IF strip(lower(env["AVALON_OPEN_LAST_WORKFILE"])) \in OverrideTrue
    THEN PyTrue
    ELSE PyFalse

\* Host and task names: "Maya", "nuke"; "Animation", "comp".
HostNames == { <<"M", "a", "y", "a">>, <<"n", "u", "k", "e">> }

TaskNames ==
    { <<"A", "n", "i", "m", "a", "t", "i", "o", "n">>, <<"c", "o", "m", "p">> }

\* The most rules a preset list holds here.
MaxRules == 2

\* Preset rules: hosts none or ["maya"], tasks none or ["ANIM"], enabled
\* True, False or not set.
PresetRules ==
    [hosts : {<< >>, << <<"m", "a", "y", "a">> >>},
     tasks : {<< >>, << <<"A", "N", "I", "M">> >>},
     enabled : {PyTrue, PyFalse, None}]

\* What fetching the presets gives: an exception of the import or of one of
\* the calls; no "last_workfile_on_startup" entry (None); or the list stored
\* under it.
get_presets ==
    {[exc |-> e, found |-> FALSE, val |-> << >>] : e \in {"ImportError", "KeyError"}}
        \cup {[exc |-> None, found |-> FALSE, val |-> << >>]}
        \cup {[exc |-> None, found |-> TRUE, val |-> rules] :
                 rules \in UNION {[1..n -> PresetRules] : n \in 0..MaxRules}}

\* Faulty variant of Caught: nothing is caught.
CaughtNothing(exc) == FALSE

\* `except Exception:` around the fetch of the presets.
Caught(exc) == TRUE

\* compile_list_of_regexes(in_list): the empty items are left out.
compile_list_of_regexes(in_list) == SelectSeq(in_list, LAMBDA item : item # << >>)

\* Whether the loop keeps an item: not skipped by `continue` for its hosts
\* or its tasks.
Applies(item, host_name_lowered, task_name_lowered) ==
    LET hosts_lowered == [i \in DOMAIN item.hosts |-> lower(item.hosts[i])]
        tasks_lowered == [i \in DOMAIN item.tasks |-> lower(item.tasks[i])]
        regexes == compile_list_of_regexes(tasks_lowered) IN
    /\ hosts_lowered # << >> => host_name_lowered \in Range(hosts_lowered)
    /\ tasks_lowered # << >>
           => \E i \in DOMAIN regexes :
                  re_match(regexes[i], task_name_lowered, << >>).ok

\* Faulty variant of Points: every rule scores the same.
PointsFlat(item) == 0

\* int(bool(hosts_lowered)) + int(bool(tasks_lowered))
Points(item) ==
    (IF item.hosts # << >> THEN 1 ELSE 0) + (IF item.tasks # << >> THEN 1 ELSE 0)

\* The loop over startup_presets from item i on, for the lowered host and task
\* names: the index of matching_item at its end, 0 for None.
RECURSIVE MatchingItem(_, _, _, _, _, _)
MatchingItem(startup_presets, i, host, task, matching_points, matching_item) ==
    IF i > Len(startup_presets) THEN matching_item
    ELSE IF ~Applies(startup_presets[i], host, task)
    THEN MatchingItem(startup_presets, i + 1, host, task, matching_points,
                      matching_item)
    ELSE LET better == Points(startup_presets[i]) > matching_points
             points == IF better THEN Points(startup_presets[i]) ELSE matching_points
             kept == IF better THEN i ELSE matching_item IN
         IF points = 2 THEN kept
         ELSE MatchingItem(startup_presets, i + 1, host, task, points, kept)

\* should_start_last_workfile(project_name, host_name, task_name) when
\* fetching the presets gives `presets`: [exc, val].
should_start_last_workfile(presets, host_name, task_name) ==
    LET default_output == DefaultOutput(environ)
        matching_item == MatchingItem(presets.val, 1, lower(host_name),
                                      lower(task_name), -1, 0) IN
    IF presets.exc # None /\ ~Caught(presets.exc)
    THEN [exc |-> presets.exc, val |-> None]
    ELSE IF presets.exc # None \/ ~presets.found \/ presets.val = << >>
    THEN [exc |-> None, val |-> default_output]
    ELSE IF matching_item = 0
    THEN [exc |-> None, val |-> default_output]
    ELSE IF presets.val[matching_item].enabled = None
    THEN [exc |-> None, val |-> default_output]
    ELSE [exc |-> None, val |-> presets.val[matching_item].enabled]

\* The arguments of a call and what fetching the presets will give.
StartInputs ==
    [host_name : HostNames, task_name : TaskNames, presets : get_presets]

\* A caller about to call, in a process started with or without the variable.
StartInit ==
    /\ registered_plugins = EmptyDict
    /\ registered_plugin_paths = EmptyDict
    /\ registered_root = None
    /\ registered_host = None
    /\ _registered_config = None
    /\ Session = EmptyDict
    /\ _registered_event_handlers = EmptyDict
    /\ \/ environ = EmptyDict
       \/ \E value \in OverrideValues :
              environ = [k \in {"AVALON_OPEN_LAST_WORKFILE"} |-> value]
    /\ document = NoLayers
    /\ Imported
    /\ \E input \in StartInputs : ret = Result("call", input, None, None)
    /\ calls = << >>

should_start_last_workfile_call ==
    LET r == should_start_last_workfile(ret.arg.presets, ret.arg.host_name,
                                        ret.arg.task_name) IN
    /\ ret.op = "call"
    /\ ret' = Result("should_start_last_workfile", ret.arg, r.exc, r.val)
    /\ calls' = << >>
    /\ PathUnchanged

SpecStart == StartInit /\ [][should_start_last_workfile_call]_vars

-----------------------------------------------------------------------------
(* Claims about should_start_last_workfile.                                *)

\* The rules of the last call's presets that match its host and task: a rule
\* that names hosts matches when the host is among them, a rule that names
\* tasks when one of them matches the task, both without regard to case.
MatchingRules ==
    LET rules == ret.arg.presets.val IN
    {i \in DOMAIN rules :
        /\ rules[i].hosts # << >>
               => \E h \in Range(rules[i].hosts) :
                      lower(h) = lower(ret.arg.host_name)
        /\ rules[i].tasks # << >>
               => \E t \in Range(rules[i].tasks) :
                      re_match(lower(t), lower(ret.arg.task_name), << >>).ok}

\* The specificity score of rule i: how many of host and task it constrains.
Score(i) ==
    Cardinality({c \in {"hosts", "tasks"} : ret.arg.presets.val[i][c] # << >>})

\* What rule i makes the call return.
EnabledBy(i) ==
    IF ret.arg.presets.val[i].enabled = None THEN DefaultOutput(environ)
    ELSE ret.arg.presets.val[i].enabled

\* C22: should_start_last_workfile returns the environment default when no
\* preset rule matches the host and the task, and otherwise the `enabled`
\* value of a matching rule of the highest specificity score, so a rule
\* matching host and task wins over one matching only the host in either
\* order; a selected rule without `enabled` yields the environment default.
C22_MostSpecificRuleDecides ==
    (/\ ret.op = "should_start_last_workfile"
     /\ ret.arg.presets.exc = None /\ ret.arg.presets.found)
        => /\ ret.exc = None
           /\ MatchingRules = {} => ret.val = DefaultOutput(environ)
           /\ MatchingRules # {}
                  => \E i \in MatchingRules :
                         /\ \A j \in MatchingRules : Score(j) <= Score(i)
                         /\ ret.val = EnabledBy(i)

\* A rule for the host alone that disables comes before a rule for host and
\* task that enables, and the call returns True.
C22_Witness ==
    /\ ret.op = "should_start_last_workfile"
    /\ ret.arg.presets.exc = None /\ ret.arg.presets.found
    /\ Len(ret.arg.presets.val) = 2
    /\ MatchingRules = {1, 2}
    /\ Score(1) = 1 /\ Score(2) = 2
    /\ ret.arg.presets.val[1].enabled = PyFalse
    /\ ret.arg.presets.val[2].enabled = PyTrue
    /\ ret.val = PyTrue

\* The default as the claim words it: True for a value that is "1", "true" or
\* "yes" up to case, False for anything else and for an unset variable.
ClaimedDefault ==
    IF "AVALON_OPEN_LAST_WORKFILE" \in DOMAIN environ
        /\ lower(environ["AVALON_OPEN_LAST_WORKFILE"])
               \in {<<"1">>, <<"t", "r", "u", "e">>, <<"y", "e", "s">>}
    THEN PyTrue ELSE PyFalse

-----------------------------------------------------------------------------
(* The session: compute_session_changes and update_current_task.           *)

\* The asset documents of the project, as io.find_one returns them.
AssetDocuments ==
    [a \in {"hero", "prop", "env"} |->
        CASE a = "hero" -> [name |-> "hero", silo |-> "assets",
                            data |-> [parents |-> <<"film", "chars">>]]
          [] a = "prop" -> [name |-> "prop", silo |-> "assets",
                            data |-> [parents |-> << >>]]
          [] a = "env"  -> [name |-> "env", silo |-> None,
                            data |-> [parents |-> << >>]]]

\* os.path.sep.join(parents) for the parents that occur.
JoinSep(parents) ==
    CASE parents = << >> -> ""
      [] parents = <<"film", "chars">> -> "film/chars"

\* anatomy.format(template_data)["work"]["folder"] for a project whose work
\* folder is named after the asset and the task.
WorkFolder(template_data) ==
    CASE template_data.asset = "hero" /\ template_data.task = "model" -> "/proj/hero/work/model"
      [] template_data.asset = "hero" /\ template_data.task = "rig"   -> "/proj/hero/work/rig"
      [] template_data.asset = "prop" /\ template_data.task = "model" -> "/proj/prop/work/model"
      [] template_data.asset = "prop" /\ template_data.task = "rig"   -> "/proj/prop/work/rig"
      [] template_data.asset = "env" /\ template_data.task = "model"  -> "/proj/env/work/model"
      [] template_data.asset = "env" /\ template_data.task = "rig"    -> "/proj/env/work/rig"

\* d after d.update(c)
Updated(d, c) ==
    [k \in DOMAIN d \cup DOMAIN c |-> IF k \in DOMAIN c THEN c[k] ELSE d[k]]

\* session.get(key)
SessionGet(session, key) == IF key \in DOMAIN session THEN session[key] ELSE None

\* template_data_from_session(session): KeyError for a missing
\* AVALON_PROJECT, AVALON_ASSET, AVALON_TASK or AVALON_APP.
template_data_from_session(session) ==
    IF {"AVALON_PROJECT", "AVALON_ASSET", "AVALON_TASK", "AVALON_APP"}
           \subseteq DOMAIN session
    THEN [exc |-> None,
          val |-> [asset |-> session["AVALON_ASSET"],
                   task |-> session["AVALON_TASK"],
                   app |-> session["AVALON_APP"],
                   silo |-> SessionGet(session, "AVALON_SILO"),
                   hierarchy |-> SessionGet(session, "AVALON_HIERARCHY")]]
    ELSE [exc |-> "KeyError", val |-> None]

\* Faulty variant of Differs: every value given counts as a change.
DiffersAlways(session, key, value) == TRUE

\* `value != session.get(key)`
Differs(session, key, value) == value # SessionGet(session, key)

\* compute_session_changes(session, task, asset, app): [exc, val, session],
\* the exception, the changes and the session as the call leaves it. The
\* asset is [doc, name]: a document when doc, else a name or None.
compute_session_changes(session, task, asset, app) ==
    LET Falsy3(v) == v = None \/ v = ""
        raised(exc) == [exc |-> exc, val |-> EmptyDict, session |-> session]
        returned(changes) == [exc |-> None, val |-> changes, session |-> session]
        asset_document == AssetDocuments[asset.name]
        mapping == [k \in {"AVALON_ASSET", "AVALON_TASK", "AVALON_APP"} |->
                       CASE k = "AVALON_ASSET" -> asset.name
                         [] k = "AVALON_TASK" -> task
                         [] k = "AVALON_APP" -> app]
        compared == [k \in {x \in DOMAIN mapping :
                               /\ ~Falsy3(mapping[x])
                               /\ Differs(session, x, mapping[x])} |-> mapping[k]]
        silo == IF Falsy3(asset_document.silo) THEN "" ELSE asset_document.silo
        with_asset ==
            IF "AVALON_ASSET" \in DOMAIN compared
            THEN Updated(compared,
                         [k \in {"AVALON_SILO", "AVALON_HIERARCHY"} |->
                             IF k = "AVALON_SILO" THEN silo
                             ELSE JoinSep(asset_document.data.parents)])
            ELSE compared
        template_data == template_data_from_session(Updated(session, with_asset)) IN
    IF Falsy3(task) /\ Falsy3(asset.name) /\ Falsy3(app)
    THEN returned(EmptyDict)
    ELSE IF ~Falsy3(asset.name) /\ ~asset.doc /\ asset.name \notin DOMAIN AssetDocuments
    THEN raised("AssertionError")
    ELSE IF DOMAIN compared = {} THEN returned(EmptyDict)
    ELSE IF template_data.exc # None THEN raised(template_data.exc)
    ELSE returned(Updated(with_asset,
                          [k \in {"AVALON_WORKDIR"} |->
                              WorkFolder(template_data.val)]))

\* Faulty variant of Mirrored: the environment is left as it was.
MirroredNowhere(env, changes) == env

\* os.environ after the loop over the changes: a value of None removes the
\* variable, any other value is stored.
Mirrored(env, changes) ==
    [k \in (DOMAIN env \cup DOMAIN changes)
               \ {x \in DOMAIN changes : changes[x] = None} |->
        IF k \in DOMAIN changes THEN changes[k] ELSE env[k]]

\* The arguments callers pass.
TaskArgs == {None, "model", "rig"}

AssetArgs ==
    {[doc |-> FALSE, name |-> n] : n \in {None, "hero", "prop", "env", "ghost"}}
        \cup {[doc |-> TRUE, name |-> "prop"]}

AppArgs == {None, "maya", "nuke"}

SessionUnchanged ==
    /\ UNCHANGED <<registered_plugins, registered_plugin_paths, registered_root,
                  registered_host, _registered_config, document>>
    /\ ModulesUnchanged

\* The keys of the changes in the order compute_session_changes inserts them.
KeyOrder ==
    <<"AVALON_ASSET", "AVALON_TASK", "AVALON_APP", "AVALON_SILO",
      "AVALON_HIERARCHY", "AVALON_WORKDIR">>

\* The positional arguments of callback(*args) in emit, after
\* `args = args or list()`: unpacking a dict yields its keys.
StarArgs(args) == SelectSeq(KeyOrder, LAMBDA k : k \in DOMAIN args)

update_current_task(task, asset, app) ==
    LET r == compute_session_changes(Session, task, asset, app) IN
    IF r.exc # None
    THEN /\ ret' = Result("update_current_task", <<task, asset, app>>, r.exc,
                          EmptyDict)
         /\ calls' = << >>
         /\ emitted' = NoEmission
         /\ UNCHANGED <<Session, environ, _registered_event_handlers>>
         /\ SessionUnchanged
    ELSE \E order \in Orderings(Handlers("taskChanged")) :
             LET looped == EmitLoop(order, << >>) IN
             /\ Session' = Updated(Session, r.val)
             /\ environ' = Mirrored(environ, r.val)
             /\ emitted' = [event |-> "taskChanged",
                            args |-> StarArgs(r.val),
                            session |-> Updated(Session, r.val)]
             /\ ret' = Result("update_current_task", <<task, asset, app>>,
                              looped.exc, r.val)
             /\ calls' = looped.called
             /\ UNCHANGED _registered_event_handlers
             /\ SessionUnchanged

compute_session_changes_call(task, asset, app) ==
    LET r == compute_session_changes(Session, task, asset, app) IN
    /\ ret' = Result("compute_session_changes", <<task, asset, app>>, r.exc,
                     [changes |-> r.val, before |-> Session])
    /\ Session' = r.session
    /\ calls' = << >>
    /\ emitted' = NoEmission
    /\ UNCHANGED <<environ, _registered_event_handlers>>
    /\ SessionUnchanged

\* A listener subscribes to the change of task.
on_taskChanged == on("taskChanged", "cbRaises")

\* The session a process starts with: complete, or holding the project only.
SessionInit ==
    /\ registered_plugins = EmptyDict
    /\ registered_plugin_paths = EmptyDict
    /\ registered_root = None
    /\ registered_host = None
    /\ _registered_config = None
    /\ \/ Session = [k \in {"AVALON_PROJECT"} |-> "proj"]
       \/ Session = [k \in {"AVALON_PROJECT", "AVALON_ASSET", "AVALON_TASK",
                            "AVALON_APP", "AVALON_SILO", "AVALON_HIERARCHY",
                            "AVALON_WORKDIR"} |->
                        CASE k = "AVALON_PROJECT" -> "proj"
                          [] k = "AVALON_ASSET" -> "hero"
                          [] k = "AVALON_TASK" -> "model"
                          [] k = "AVALON_APP" -> "maya"
                          [] k = "AVALON_SILO" -> "assets"
                          [] k = "AVALON_HIERARCHY" -> "film/chars"
                          [] k = "AVALON_WORKDIR" -> "/proj/hero/work/model"]
    /\ _registered_event_handlers = EmptyDict
    /\ environ = EmptyDict
    /\ document = NoLayers
    /\ Imported
    /\ ret = Result("init", None, None, None)
    /\ calls = << >>

SessionNext ==
    \/ \E task \in TaskArgs, asset \in AssetArgs, app \in AppArgs :
           update_current_task(task, asset, app)
    \/ \E task \in TaskArgs, asset \in AssetArgs, app \in AppArgs :
           compute_session_changes_call(task, asset, app)
    \/ on_taskChanged

SpecSession == SessionInit /\ [][SessionNext]_vars

-----------------------------------------------------------------------------
(* Claims about the session.                                               *)

\* C24: after update_current_task returns, for every key k of the returned
\* changes Session[k] and the environment variable k equal changes[k] (a
\* change to None removes the variable), and every other session key and
\* environment variable is as before; so the session and the environment
\* agree on every key that update_current_task calls have changed (the
\* environment starts without these keys, so it holds exactly the changed
\* ones).
C24_SessionMirroredInEnvironment ==
    /\ [][(ret'.op = "update_current_task" /\ ret'.exc = None)
             => /\ \A k \in DOMAIN ret'.val :
                       /\ k \in DOMAIN Session' /\ Session'[k] = ret'.val[k]
                       /\ IF ret'.val[k] = None THEN k \notin DOMAIN environ'
                          ELSE k \in DOMAIN environ' /\ environ'[k] = ret'.val[k]
                /\ \A k \in DOMAIN Session' \ DOMAIN ret'.val :
                       k \in DOMAIN Session /\ Session'[k] = Session[k]
                /\ DOMAIN Session \subseteq DOMAIN Session'
                /\ \A k \in DOMAIN environ' \ DOMAIN ret'.val :
                       k \in DOMAIN environ /\ environ'[k] = environ[k]
                /\ DOMAIN environ \ DOMAIN ret'.val \subseteq DOMAIN environ']_vars
    /\ [](\A k \in DOMAIN environ : k \in DOMAIN Session /\ Session[k] = environ[k])

\* A second change: the task was changed before and now the asset.
C24_Witness ==
    /\ ret.op = "update_current_task" /\ ret.exc = None
    /\ "AVALON_ASSET" \in DOMAIN ret.val /\ "AVALON_TASK" \notin DOMAIN ret.val
    /\ {"AVALON_ASSET", "AVALON_TASK", "AVALON_WORKDIR"} \subseteq DOMAIN environ
    /\ environ["AVALON_TASK"] = "rig" /\ Session["AVALON_TASK"] = "rig"
    /\ environ["AVALON_ASSET"] = "prop" /\ Session["AVALON_ASSET"] = "prop"
    /\ environ["AVALON_WORKDIR"] = "/proj/prop/work/rig"

\* What the last call of compute_session_changes was given, by session key.
Given ==
    [k \in {"AVALON_ASSET", "AVALON_TASK", "AVALON_APP"} |->
        CASE k = "AVALON_TASK" -> ret.arg[1]
          [] k = "AVALON_ASSET" -> ret.arg[2].name
          [] k = "AVALON_APP" -> ret.arg[3]]

\* The keys given a value that is not the session's.
Differing ==
    {k \in DOMAIN Given :
        Given[k] # None /\ Given[k] # SessionGet(ret.val.before, k)}

\* The keys the claim lists for the changes.
ListedKeys ==
    IF Differing = {} THEN {}
    ELSE Differing \cup {"AVALON_WORKDIR"}
             \cup (IF "AVALON_ASSET" \in Differing
                   THEN {"AVALON_SILO", "AVALON_HIERARCHY"} ELSE {})

\* C25 (as claimed): compute_session_changes does not modify the session it
\* is given and returns only keys whose new value differs from the
\* session's: an empty mapping when no task, asset or app is given or when
\* all given values equal the session's; otherwise the differing keys among
\* AVALON_ASSET, AVALON_TASK, AVALON_APP, plus a recomputed AVALON_WORKDIR,
\* plus AVALON_SILO and AVALON_HIERARCHY exactly when the asset changed.
C25_OnlyDifferingKeys ==
    (ret.op = "compute_session_changes" /\ ret.exc = None)
        => /\ Session = ret.val.before
           /\ DOMAIN ret.val.changes = ListedKeys
           /\ \A k \in Differing : ret.val.changes[k] = Given[k]
           /\ \A k \in DOMAIN ret.val.changes :
                  ret.val.changes[k] # SessionGet(ret.val.before, k)

\* C25 (amended): compute_session_changes does not modify the session it is
\* given; it returns an empty mapping when no task, asset or app is given or
\* when all given values equal the session's; otherwise the differing keys
\* among AVALON_ASSET, AVALON_TASK, AVALON_APP with the values given, plus a
\* recomputed AVALON_WORKDIR, plus AVALON_SILO and AVALON_HIERARCHY exactly
\* when the asset changed; these derived keys are returned whether or not
\* their value differs from the session's.
C25_DifferingAndDerivedKeys ==
    (ret.op = "compute_session_changes" /\ ret.exc = None)
        => /\ Session = ret.val.before
           /\ DOMAIN ret.val.changes = ListedKeys
           /\ \A k \in Differing : ret.val.changes[k] = Given[k]

\* The asset changes to one of the same silo: the silo is among the changes
\* with the value the session has.
C25_Witness ==
    /\ ret.op = "compute_session_changes" /\ ret.exc = None
    /\ "AVALON_ASSET" \in Differing
    /\ "AVALON_SILO" \in DOMAIN ret.val.before
    /\ "AVALON_SILO" \in DOMAIN ret.val.changes
    /\ ret.val.changes["AVALON_SILO"] = ret.val.before["AVALON_SILO"]

-----------------------------------------------------------------------------
(* avalon/photoshop/pipeline.py: containerise and ls.                      *)

AVALON_CONTAINER_ID == "pyblish.avalon.container"

\* The layers of the active document; "layer9" is the id of no layer.
LayerIds == {"layer1", "layer2"}

\* An ObjectId of the database, and str() of it.
ObjectId(hex) == [hex |-> hex]

StrOfId(id) == id.hex

\* str(loader) for a loader name or None: the str "None" is not None.
StrOf(loader) == IF loader = None THEN "'None'" ELSE loader

\* lib.get_layers_by_ids(ids): the layers of the document with these ids.
get_layers_by_ids(ids) == SelectSeq(ids, LAMBDA id : id \in DOMAIN document)

PhotoshopUnchanged ==
    /\ UNCHANGED <<registered_plugins, registered_plugin_paths, registered_root,
                  registered_host, _registered_config, Session,
                  _registered_event_handlers, environ, emitted>>
    /\ ModulesUnchanged

\* containerise(name, namespace, layer_id, context, loader): lib.imprint
\* stores the data on the layer; the layer is returned.
containerise(name, namespace, layer_id, context, loader) ==
    LET layers == get_layers_by_ids(<<layer_id>>)
        arg == [name |-> name, namespace |-> namespace, layer_id |-> layer_id,
                context |-> context, loader |-> loader]
        data == [schema |-> "avalon-core:container-2.0",
                 id |-> AVALON_CONTAINER_ID,
                 name |-> name,
                 namespace |-> namespace,
                 loader |-> StrOf(loader),
                 representation |-> StrOfId(context.representation._id)] IN
    /\ IF layers = << >>
       THEN /\ ret' = Result("containerise", arg, "IndexError", None)
            /\ UNCHANGED document
       ELSE /\ ret' = Result("containerise", arg, None, layers[1])
            /\ document' = [document EXCEPT ![layers[1]] = data]
    /\ calls' = << >>
    /\ PhotoshopUnchanged

\* photoshop.ls(): the body is `pass`, the call returns None. The result is
\* [listed, containers]: whether the call gave something to iterate, and what.
ls ==
    /\ ret' = Result("ls", None, None, [listed |-> FALSE, containers |-> {}])
    /\ calls' = << >>
    /\ UNCHANGED document
    /\ PhotoshopUnchanged

\* pipeline._get_container_loader on the data imprinted on a layer.
get_container_loader_call(layer_id) ==
    /\ layer_id \in DOMAIN document
    /\ "loader" \in DOMAIN document[layer_id]
    /\ LET r == _get_container_loader(document[layer_id]) IN
       ret' = Result("_get_container_loader", document[layer_id], r.exc, r.val)
    /\ calls' = << >>
    /\ UNCHANGED document
    /\ PhotoshopUnchanged

\* A document with two layers that carry no data.
PhotoshopInit ==
    /\ registered_plugins = EmptyDict
    /\ registered_plugin_paths = EmptyDict
    /\ registered_root = None
    /\ registered_host = None
    /\ _registered_config = None
    /\ Session = EmptyDict
    /\ _registered_event_handlers = EmptyDict
    /\ environ = EmptyDict
    /\ document = [layer \in LayerIds |-> EmptyDict]
    /\ Imported
    /\ ret = Result("init", None, None, None)
    /\ calls = << >>

PhotoshopNext ==
    \/ \E layer_id \in LayerIds \cup {"layer9"}, hex \in DOMAIN DbContext,
          loader \in {None, "ModelLoader", "AnyLoader"} :
           containerise("model", "ns", layer_id,
                        [representation |-> [_id |-> ObjectId(hex)]], loader)
    \/ ls
    \/ \E layer_id \in LayerIds : get_container_loader_call(layer_id)

SpecPhotoshop == PhotoshopInit /\ [][PhotoshopNext]_vars

-----------------------------------------------------------------------------
(* Claims about containers.                                                *)

\* The data of the layers that are containers.
ContainersOfDocument ==
    {document[l] : l \in {x \in DOMAIN document :
                             /\ "id" \in DOMAIN document[x]
                             /\ document[x].id = AVALON_CONTAINER_ID}}

\* C26 (as claimed): a container imprinted by containerise for a
\* representation with id R and a loader name L carries representation =
\* str(R) and loader = L, is retrievable through the host's ls(), and resolves
\* back through _get_container_loader to the discovered Loader plug-in whose
\* class name is L, from which the same representation R is reached.
C26_ContainerRoundTrip ==
    /\ (ret.op = "containerise" /\ ret.exc = None /\ ret.arg.loader # None)
           => /\ document[ret.val].representation
                     = StrOfId(ret.arg.context.representation._id)
              /\ document[ret.val].loader = ret.arg.loader
    /\ ret.op = "ls"
           => /\ ret.exc = None
              /\ ret.val.listed
              /\ ret.val.containers = ContainersOfDocument
    /\ (/\ ret.op = "_get_container_loader"
        /\ \E L \in LoaderClasses : LoaderInfo[L].name = ret.arg.loader)
           => /\ ret.exc = None
              /\ ret.val \in LoaderClasses
              /\ LoaderInfo[ret.val].name = ret.arg.loader
              /\ find_one(ret.arg.representation) = ret.arg.representation

-----------------------------------------------------------------------------
(* Claims about get_representation_context.                                *)

\* The representation resolves in the store, and parenthood gives a version,
\* a subset, an asset and a project for it.
ChainResolves(representation) ==
    /\ representation \in DOMAIN DbContext
    /\ dbcon_parenthood(representation).exc = None
    /\ dbcon_parenthood(representation).resolved = <<TRUE, TRUE, TRUE, TRUE>>

\* C27: get_representation_context fails unless the representation and all
\* of its ancestors (version, subset, asset, project) resolve; it never
\* returns a context in which one of them is missing.
C27_ContextNeedsWholeChain ==
    ret.op = "get_representation_context"
        => /\ ~ChainResolves(ret.arg) => ret.exc # None
           /\ ret.exc = None
                  => ChainResolves(ret.arg) /\ ret.val = DbContext[ret.arg]

\* The asset of a representation does not resolve, and the call fails.
C27_Witness ==
    /\ ret.op = "get_representation_context"
    /\ ret.arg = "rep_no_asset"
    /\ ret.exc = "AssertionError"

-----------------------------------------------------------------------------
(* Claims about the Loader that is invoked.                                *)

\* The Loader class a container names.
LoaderNamed(container) ==
    CHOOSE L \in LoaderClasses : LoaderInfo[L].name = container.loader

\* The call constructed the class _make_backwards_compatible_loader gives for
\* Loader and invoked `method` on the instance.
InvokedWrapped(Loader, method) ==
    /\ ret.exc = None
    /\ Len(calls) = 2
    /\ calls[1] = <<_make_backwards_compatible_loader(Loader), "__init__">>
    /\ calls[2] = <<_make_backwards_compatible_loader(Loader), method>>

-----------------------------------------------------------------------------
(* The event bus: before and after.                                        *)

\* Events callers name in before() and after().
BaseEvents == {"save"}

\* prefix + event, for the prefixes and events that occur.
Concat(prefix, event) ==
    CASE prefix = "before_" /\ event = "save" -> "before_save"
      [] prefix = "after_" /\ event = "save" -> "after_save"

\* Faulty variant of BeforePrefix.
BeforePrefixMissing(event) == event

\* "before_" + event
BeforePrefix(event) == Concat("before_", event)

\* "after_" + event
AfterPrefix(event) == Concat("after_", event)

\* before(event, callback): on("before_" + event, callback)
before(event, callback) ==
    /\ _registered_event_handlers' =
           [e \in DOMAIN _registered_event_handlers \cup {BeforePrefix(event)} |->
               IF e = BeforePrefix(event)
               THEN Handlers(BeforePrefix(event)) \cup {callback}
               ELSE _registered_event_handlers[e]]
    /\ ret' = Result("before", <<event, callback>>, None, None)
    /\ calls' = << >>
    /\ EventsUnchanged

\* after(event, callback): on("after_" + event, callback)
after(event, callback) ==
    /\ _registered_event_handlers' =
           [e \in DOMAIN _registered_event_handlers \cup {AfterPrefix(event)} |->
               IF e = AfterPrefix(event)
               THEN Handlers(AfterPrefix(event)) \cup {callback}
               ELSE _registered_event_handlers[e]]
    /\ ret' = Result("after", <<event, callback>>, None, None)
    /\ calls' = << >>
    /\ EventsUnchanged

\* The event names emitted here, and the callables subscribed.
EmittedEvents == {"save", "before_save", "after_save"}

Subscribers == {"cbOk", "cbRaises"}

BeforeAfterNext ==
    \/ \E event \in BaseEvents, callback \in Subscribers : on(event, callback)
    \/ \E event \in BaseEvents, callback \in Subscribers : before(event, callback)
    \/ \E event \in BaseEvents, callback \in Subscribers : after(event, callback)
    \/ \E callback \in Subscribers : collect(callback)
    \/ \E event \in EmittedEvents : emit(event)

SpecBeforeAfter == Init /\ [][BeforeAfterNext]_vars

-----------------------------------------------------------------------------
(* Claims about before and after.                                          *)

\* C29: a callback registered with before(e, cb) is invoked by
\* emit("before_" + e) and one registered with after(e, cb) by
\* emit("after_" + e); emit(x) invokes only the callbacks registered under
\* exactly the name x, so emit(e) itself invokes neither, and a callback
\* registered twice for an event runs once per emit.
C29_BeforeAfterArePrefixedOn ==
    /\ [][(/\ ret.op = "before" /\ ret.arg[1] = "save"
           /\ ret'.op = "emit" /\ ret'.arg = "before_save")
              => ret.arg[2] \in Range(calls')]_vars
    /\ [][(/\ ret.op = "after" /\ ret.arg[1] = "save"
           /\ ret'.op = "emit" /\ ret'.arg = "after_save")
              => ret.arg[2] \in Range(calls')]_vars
    /\ [][(/\ ret.op \in {"before", "after"}
           /\ ret'.op = "emit" /\ ret'.arg = ret.arg[1]
           /\ ret.arg[2] \notin Handlers(ret.arg[1]))
              => ret.arg[2] \notin Range(calls')]_vars
    /\ [][(ret'.op \in {"before", "after"})
              => \A e \in DOMAIN _registered_event_handlers' :
                     e # (IF ret'.op = "before" THEN "before_save" ELSE "after_save")
                         => /\ e \in DOMAIN _registered_event_handlers
                            /\ _registered_event_handlers'[e]
                                   = _registered_event_handlers[e]]_vars
    /\ [](ret.op = "emit"
              => /\ Range(calls) = Handlers(ret.arg)
                 /\ \A i, j \in DOMAIN calls : calls[i] = calls[j] => i = j)

\* cbOk is registered under "before_save" and "after_save" and nothing under
\* "save", and emit("before_save") has just run it once.
C29_Witness ==
    /\ ret.op = "emit" /\ ret.arg = "before_save"
    /\ calls = <<"cbOk">>
    /\ "before_save" \in DOMAIN _registered_event_handlers
    /\ "after_save" \in DOMAIN _registered_event_handlers
    /\ "save" \notin DOMAIN _registered_event_handlers
    /\ _registered_event_handlers["after_save"] = {"cbOk"}

-----------------------------------------------------------------------------
(* Claims about deregistration.                                            *)

\* Deregistering x for S in the registry d would succeed and leave for S the
\* list `before`.
DeregisterRestores(d, S, x, earlier) ==
    /\ RemoveError(d, S, x) = None
    /\ ListRemove(d[S], x) = earlier

\* C30 (as claimed): deregister_plugin_path is the opposite of
\* register_plugin_path and deregister_plugin the opposite of
\* register_plugin: for any superclass S and any argument x not registered
\* before, after registering x a deregistration with the same x succeeds and
\* leaves the registry for S as it was before the registration.
C30_DeregisterIsOpposite ==
    [][/\ (/\ ret'.op = "register_plugin_path" /\ ret'.exc = None
           /\ ret'.arg[2] \notin Range(GetOrEmpty(registered_plugin_paths,
                                                  ret'.arg[1])))
              => DeregisterRestores(registered_plugin_paths', ret'.arg[1],
                                    ret'.arg[2],
                                    GetOrEmpty(registered_plugin_paths,
                                               ret'.arg[1]))
       /\ (/\ ret'.op = "register_plugin" /\ ret'.exc = None
           /\ ret'.arg[2] \notin Range(GetOrEmpty(registered_plugins,
                                                  ret'.arg[1])))
              => DeregisterRestores(registered_plugins', ret'.arg[1],
                                    ret'.arg[2],
                                    GetOrEmpty(registered_plugins,
                                               ret'.arg[1]))]_vars

-----------------------------------------------------------------------------
(* pipeline.install, pipeline.uninstall and pipeline.is_installed.         *)

InstallUnchanged ==
    UNCHANGED <<registered_plugins, registered_plugin_paths, registered_root,
                registered_host, _registered_config, Session,
                _registered_event_handlers, environ, document, emitted,
                callback_queue, workfile_path, threads, filesystem, cwd,
                executed>>

\* lib.find_submodule(config, host_name): the config's module for the host,
\* None when the config has none. cfgB ships one for hostNoLs, with install
\* and uninstall.
find_submodule(config, host_name) ==
    IF config = "cfgB" /\ host_name = "hostNoLs" THEN "cfgB.hostNoLs" ELSE None

\* The module-level stubs of pipeline.py (register_host, register_config,
\* registered_host, registered_config, deregister_host, deregister_config,
\* is_installed): the body is `pass`, so each returns None and changes nothing.
Stub == None

\* install(host)
install(host) ==
    LET missing == {key \in {"AVALON_PROJECT", "AVALON_ASSET"} :
                       key \notin DOMAIN Session}
        config == find_config
        host_install == IF "install" \in DOMAIN HostMembers[host]
                        THEN << <<host, "install">> >> ELSE << >>
        config_host == find_submodule(config.val, host)
        config_host_install == IF config_host # host /\ config_host # None
                               THEN << <<config_host, "install">> >> ELSE << >>
        config_installed == "install" \in DOMAIN ConfigMembers[config.val]
        raised(exc, hooks) ==
            /\ ret' = Result("install", host, exc, None)
            /\ calls' = hooks
            /\ UNCHANGED <<_is_installed, _config>> IN
    /\ IF missing # {} THEN raised("AssertionError", << >>)
       ELSE IF config.exc # None THEN raised(config.exc, << >>)
       ELSE IF ~config_installed
       THEN raised("AttributeError", host_install \o config_host_install)
       ELSE /\ ret' = Result("install", host, None, Stub)
            /\ calls' = host_install \o config_host_install
                            \o << <<config.val, "install">> >>
            /\ _is_installed' = TRUE
            /\ _config' = config.val
    /\ InstallUnchanged

\* uninstall(): registered_config() and registered_host() are stubs, so
\* `host.__name__` is read from None and raises before any hook is reached.
uninstall ==
    /\ ret' = Result("uninstall", <<Stub, Stub>>, "AttributeError", None)
    /\ calls' = << >>
    /\ UNCHANGED <<_is_installed, _config>>
    /\ InstallUnchanged

\* is_installed()
is_installed ==
    /\ ret' = Result("is_installed", None, None, Stub)
    /\ calls' = << >>
    /\ UNCHANGED <<_is_installed, _config>>
    /\ InstallUnchanged

\* The caller sets or clears a key of the session.
session_asset(present) ==
    /\ Session' = IF present
                  THEN [k \in DOMAIN Session \cup {"AVALON_ASSET"} |->
                           IF k = "AVALON_ASSET" THEN "hero" ELSE Session[k]]
                  ELSE [k \in DOMAIN Session \ {"AVALON_ASSET"} |-> Session[k]]
    /\ ret' = Result("Session", present, None, None)
    /\ calls' = << >>
    /\ UNCHANGED <<_is_installed, _config>>
    /\ UNCHANGED <<registered_plugins, registered_plugin_paths, registered_root,
                   registered_host, _registered_config,
                   _registered_event_handlers, environ, document, emitted,
                   callback_queue, workfile_path, threads, filesystem, cwd,
                   executed>>

InstallInit ==
    /\ registered_plugins = EmptyDict
    /\ registered_plugin_paths = EmptyDict
    /\ registered_root = None
    /\ registered_host = None
    /\ _registered_config = None
    /\ Session = [k \in {"AVALON_PROJECT", "AVALON_CONFIG"} |->
                     IF k = "AVALON_PROJECT" THEN "proj" ELSE "cfgA"]
    /\ _registered_event_handlers = EmptyDict
    /\ environ = EmptyDict
    /\ document = NoLayers
    /\ Imported
    /\ ret = Result("init", None, None, None)
    /\ calls = << >>

InstallNext ==
    \/ \E host \in Hosts : install(host)
    \/ uninstall
    \/ is_installed
    \/ \E value \in ConfigValues : session_set(value)
    \/ \E present \in BOOLEAN : session_asset(present)

SpecInstall == InstallInit /\ [][InstallNext]_vars

\* The uninstall hooks of the host and of the config have each run once.
UninstallHooksRan(host, config) ==
    /\ Len(SelectSeq(calls', LAMBDA c : c = <<host, "uninstall">>)) = 1
    /\ Len(SelectSeq(calls', LAMBDA c : c = <<config, "uninstall">>)) = 1

\* C31 (as claimed): uninstall undoes all of what install did: when uninstall()
\* follows a successful install(host), it returns, the installed flag is false
\* again and the uninstall hooks of the host and of the config have each run
\* once; and install raises the flag only when config.install() has returned,
\* a failure in an earlier step leaving it as it was.
C31_UninstallUndoesInstall ==
    [][/\ (ret.op = "install" /\ ret.exc = None /\ ret'.op = "uninstall")
              => /\ ret'.exc = None
                 /\ _is_installed' = FALSE
                 /\ UninstallHooksRan(ret.arg, _config)
       /\ (ret'.op = "install" /\ ret'.exc # None)
              => _is_installed' = _is_installed
       /\ (ret'.op = "install" /\ ret'.exc = None)
              => /\ _is_installed'
                 /\ calls'[Len(calls')] = <<_config', "install">>]_vars

-----------------------------------------------------------------------------
(* Claims about the independence of the active host and the active root.   *)

\* C32 (as claimed): register_root(r) leaves the host that the method
\* registered_host returns unchanged, and register_host(h) and
\* deregister_host leave the registered root unchanged.
C32_HostAndRootIndependent ==
    [][/\ ret'.op = "register_root"
              => registered_host_method' = registered_host_method
       /\ ret'.op \in {"register_host", "deregister_host"}
              => registered_root' = registered_root]_vars

-----------------------------------------------------------------------------
(* Claims about the event of update_current_task.                          *)

\* C33 (as claimed): every call of update_current_task that returns emits
\* "taskChanged" once, after all changed keys have been written, so that a
\* handler reading the Session sees the new values, and the handlers receive
\* the changed key/value mapping, the one returned to the caller, as their
\* argument.
C33_HandlersReceiveChanges ==
    [][(ret'.op = "update_current_task" /\ ret'.exc = None)
           => /\ emitted'.event = "taskChanged"
              /\ emitted'.session = Session'
              /\ \A k \in DOMAIN ret'.val : emitted'.session[k] = ret'.val[k]
              /\ Len(emitted'.args) = 1
              /\ emitted'.args[1] = ret'.val]_vars

-----------------------------------------------------------------------------
(* Claims about the document handed to get_representation_path.            *)

\* C34 (as claimed): get_representation_path does not modify the
\* representation document it is given: after the call, whichever tier
\* yielded the path, the document with its stored context is equal to what it
\* was before the call.
C34_RepresentationNotModified ==
    ret.op = "get_representation_path"
        => ret.val.representation = GivenRepresentation

-----------------------------------------------------------------------------
(* The Toon Boom bridge: launch, the server thread and the callback queue. *)
(* The port, the pid and the application name are not tracked.             *)

MaxCallbacks == 3

\* Zipped scene files a caller may launch or the user may open.
ZipFiles == {"sceneA.zip", "sceneB.zip"}

BridgeUnchanged ==
    UNCHANGED <<registered_plugins, registered_plugin_paths, registered_root,
                registered_host, _registered_config, Session,
                _registered_event_handlers, document, emitted, _is_installed,
                _config, cwd>>

\* get_local_path(filepath): the directory the scene is localised in.
get_local_path(filepath) ==
    IF filepath = "sceneA.zip" THEN "~/.avalon/harmony/sceneA"
    ELSE "~/.avalon/harmony/sceneB"

\* A file or directory written to the end from `source`: no open handle
\* writes to it and no writer was overrun by another.
Stored(source) == [of |-> source, open |-> {}, torn |-> FALSE]

\* The disk with `content` stored at `path`.
Written(files, path, content) ==
    [p \in DOMAIN files \cup {path} |-> IF p = path THEN content ELSE files[p]]

\* launch_zip_file(filepath): the archive is extracted when the local scene is
\* missing, the server thread is started and the path remembered. The server
\* thread runs from thread.start() on.
launch_zip_file(filepath) ==
    /\ filesystem' = IF get_local_path(filepath) \in DOMAIN filesystem
                     THEN filesystem
                     ELSE Written(filesystem, get_local_path(filepath),
                                  Stored(filepath))
    /\ threads' = [t \in DOMAIN threads \cup {"server"} |->
                      IF t = "server" THEN [pc |-> "running", sent |-> 0]
                      ELSE [threads[t] EXCEPT !.pc = "queue"]]
    /\ workfile_path' = filepath

\* launch, lines 53-68: with AVALON_TOONBOOM_WORKFILES_ON_LAUNCH set the
\* Workfiles tool is shown, where the user opens a file (open_file calls
\* launch_zip_file) or closes the tool.
launch_workfiles ==
    /\ threads["main"].pc = "launch"
    /\ IF "AVALON_TOONBOOM_WORKFILES_ON_LAUNCH" \in DOMAIN environ
       THEN \/ /\ \E filepath \in ZipFiles : launch_zip_file(filepath)
               /\ ret' = Result("workfiles.show", "open_file", None, None)
            \/ /\ threads' = [threads EXCEPT !["main"].pc = "zip"]
               /\ ret' = Result("workfiles.show", "close", None, None)
               /\ UNCHANGED <<filesystem, workfile_path>>
       ELSE /\ threads' = [threads EXCEPT !["main"].pc = "zip"]
            /\ ret' = Result("launch", None, None, None)
            /\ UNCHANGED <<filesystem, workfile_path>>
    /\ environ' = [k \in DOMAIN environ \cup {"AVALON_TOONBOOM_PORT",
                                              "TOONBOOM_GLOBAL_SCRIPT_LOCATION"} |->
                      IF k \in DOMAIN environ THEN environ[k] ELSE "set"]
    /\ calls' = << >>
    /\ UNCHANGED <<callback_queue, executed>>
    /\ BridgeUnchanged

\* launch, lines 71-72: `if not self.workfile_path: launch_zip_file(zip_file)`
launch_zip(zip_file) ==
    /\ threads["main"].pc = "zip"
    /\ launch_zip_file(zip_file)
    /\ ret' = Result("launch_zip_file", zip_file, None, None)
    /\ calls' = << >>
    /\ UNCHANGED <<callback_queue, executed, environ>>
    /\ BridgeUnchanged

\* launch, line 74: `self.callback_queue = queue.Queue()`
launch_queue ==
    /\ threads["main"].pc = "queue"
    /\ callback_queue' = Queue(<< >>)
    /\ threads' = [threads EXCEPT !["main"].pc = "listen"]
    /\ ret' = Result("queue.Queue", None, None, None)
    /\ calls' = << >>
    /\ UNCHANGED <<workfile_path, filesystem, executed, environ>>
    /\ BridgeUnchanged

\* main_thread_listen(), in the loop of launch: get() blocks on an empty
\* queue; the callback taken is run on the main thread.
main_thread_listen ==
    /\ threads["main"].pc = "listen"
    /\ callback_queue.items # << >>
    /\ callback_queue' = Queue(Tail(callback_queue.items))
    /\ executed' = Append(executed, Head(callback_queue.items))
    /\ ret' = Result("main_thread_listen", Head(callback_queue.items), None,
                     None)
    /\ calls' = << >>
    /\ UNCHANGED <<workfile_path, filesystem, threads, environ>>
    /\ BridgeUnchanged

\* self.callback_queue.put(callback)
QueuePut(q, callback) ==
    IF ~q.created THEN [exc |-> "AttributeError", queue |-> q]
    ELSE [exc |-> None, queue |-> Queue(Append(q.items, callback))]

\* execute_in_main_thread(callback), called on the server thread for its
\* next request.
execute_in_main_thread ==
    /\ "server" \in DOMAIN threads
    /\ threads["server"].sent < MaxCallbacks
    /\ LET callback == threads["server"].sent + 1
           put == QueuePut(callback_queue, callback) IN
       /\ callback_queue' = put.queue
       /\ ret' = Result("execute_in_main_thread", callback, put.exc, None)
    /\ threads' = [threads EXCEPT !["server"].sent = @ + 1]
    /\ calls' = << >>
    /\ UNCHANGED <<workfile_path, filesystem, executed, environ>>
    /\ BridgeUnchanged

BridgeInit ==
    /\ registered_plugins = EmptyDict
    /\ registered_plugin_paths = EmptyDict
    /\ registered_root = None
    /\ registered_host = None
    /\ _registered_config = None
    /\ Session = EmptyDict
    /\ _registered_event_handlers = EmptyDict
    /\ \/ environ = EmptyDict
       \/ environ = [k \in {"AVALON_TOONBOOM_WORKFILES_ON_LAUNCH"} |-> "1"]
    /\ document = NoLayers
    /\ emitted = NoEmission
    /\ _is_installed = FALSE
    /\ _config = None
    /\ callback_queue = NoQueue
    /\ workfile_path = None
    /\ threads = [t \in {"main"} |-> [pc |-> "launch"]]
    /\ \/ filesystem = EmptyDict
       \/ filesystem = [p \in {get_local_path("sceneA.zip")} |->
                           Stored("sceneA.zip")]
    /\ cwd = None
    /\ executed = << >>
    /\ ret = Result("init", None, None, None)
    /\ calls = << >>

BridgeNext ==
    \/ launch_workfiles
    \/ \E zip_file \in ZipFiles : launch_zip(zip_file)
    \/ launch_queue
    \/ main_thread_listen
    \/ execute_in_main_thread

SpecBridge == BridgeInit /\ [][BridgeNext]_vars

\* The callbacks the server thread has handed over so far, in order.
HandedOver == [i \in 1..threads["server"].sent |-> i]

\* C35 (as claimed): a callback handed to execute_in_main_thread from the
\* server thread at any moment after launch started that thread is enqueued,
\* execute_in_main_thread never finding the queue uninitialised, and the
\* callbacks are run on the main thread in the order they were enqueued: what
\* has run followed by what is queued is what was handed over.
C35_CallbacksQueuedInOrder ==
    /\ ret.op = "execute_in_main_thread" => ret.exc = None
    /\ callback_queue.created
           => executed \o callback_queue.items = HandedOver

-----------------------------------------------------------------------------
(* The Toon Boom bridge: on_file_changed and the zip_and_move threads.     *)

MaxTriggers == 2

\* The scene directories get_local_path yields, whose scene file the watcher
\* reports.
SceneDirs == {get_local_path(filepath) : filepath \in ZipFiles}

\* os.path.dirname(source): every local scene lies in one directory.
dirname(source) == "~/.avalon/harmony"

\* The file the relative name `basename(source) + ".zip"` denotes when the
\* working directory is `dir`.
RelativeArchive(dir, source) ==
    CASE dir = "~/.avalon/harmony" /\ source = "~/.avalon/harmony/sceneA"
             -> "~/.avalon/harmony/sceneA.zip"
      [] dir = "~/.avalon/harmony" /\ source = "~/.avalon/harmony/sceneB"
             -> "~/.avalon/harmony/sceneB.zip"

ZipUnchanged ==
    UNCHANGED <<registered_plugins, registered_plugin_paths, registered_root,
                registered_host, _registered_config, Session,
                _registered_event_handlers, environ, document, emitted,
                _is_installed, _config, callback_queue, workfile_path,
                executed>>

\* on_file_changed(path), for the scene file in the directory `source`; also
\* the call save_scene makes.
on_file_changed(source) ==
    /\ IF workfile_path = None
       THEN UNCHANGED threads
       ELSE /\ Len(threads) < MaxTriggers
            /\ threads' = Append(threads, [pc |-> "chdir", source |-> source,
                                           destination |-> workfile_path,
                                           handle |-> None])
    /\ ret' = Result("on_file_changed", source, None, None)
    /\ calls' = << >>
    /\ UNCHANGED <<filesystem, cwd>>
    /\ ZipUnchanged

\* zip_and_move, line 192: os.chdir(os.path.dirname(source)) moves the working
\* directory of the whole process.
zip_chdir(t) ==
    /\ threads[t].pc = "chdir"
    /\ cwd' = dirname(threads[t].source)
    /\ threads' = [threads EXCEPT ![t].pc = "open"]
    /\ ret' = Result("os.chdir", t, None, None)
    /\ calls' = << >>
    /\ UNCHANGED filesystem
    /\ ZipUnchanged

\* zip_and_move, line 193: make_archive opens the archive under its relative
\* name for writing, truncating a file already there; a writer still at work
\* on that file is overrun.
zip_open(t) ==
    LET path == RelativeArchive(cwd, threads[t].source)
        overrun == path \in DOMAIN filesystem /\ filesystem[path].open # {} IN
    /\ threads[t].pc = "open"
    /\ filesystem' =
           Written(filesystem, path,
                   [of |-> threads[t].source,
                    open |-> IF overrun THEN filesystem[path].open \cup {t}
                             ELSE {t},
                    torn |-> overrun])
    /\ threads' = [threads EXCEPT ![t].pc = "close", ![t].handle = path]
    /\ ret' = Result("make_archive.open", t, None, None)
    /\ calls' = << >>
    /\ UNCHANGED cwd
    /\ ZipUnchanged

\* zip_and_move, line 193: make_archive has written the source directory and
\* closes the archive, wherever the file has been moved meanwhile.
zip_close(t) ==
    LET path == threads[t].handle IN
    /\ threads[t].pc = "close"
    /\ filesystem' = IF path \in DOMAIN filesystem
                     THEN [filesystem EXCEPT ![path].open = @ \ {t}]
                     ELSE filesystem
    /\ threads' = [threads EXCEPT ![t].pc = "move", ![t].handle = None]
    /\ ret' = Result("make_archive.close", t, None, None)
    /\ calls' = << >>
    /\ UNCHANGED cwd
    /\ ZipUnchanged

\* zip_and_move, line 194: shutil.move renames the archive onto the
\* destination; open handles follow the file, those on the file replaced are
\* left with a file no path leads to.
zip_move(t) ==
    LET path == RelativeArchive(cwd, threads[t].source)
        destination == threads[t].destination
        moved(handle) == IF handle = path THEN destination
                         ELSE IF handle = destination THEN "unlinked"
                         ELSE handle IN
    /\ threads[t].pc = "move"
    /\ IF path \in DOMAIN filesystem
       THEN /\ filesystem' = [p \in (DOMAIN filesystem \ {path})
                                       \cup {destination} |->
                                 IF p = destination THEN filesystem[path]
                                 ELSE filesystem[p]]
            /\ threads' = [u \in DOMAIN threads |->
                              IF u = t THEN [threads[u] EXCEPT !.pc = "done"]
                              ELSE [threads[u] EXCEPT !.handle = moved(@)]]
            /\ ret' = Result("shutil.move", t, None, None)
       ELSE /\ threads' = [threads EXCEPT ![t].pc = "died"]
            /\ ret' = Result("shutil.move", t, "FileNotFoundError", None)
            /\ UNCHANGED filesystem
    /\ calls' = << >>
    /\ UNCHANGED cwd
    /\ ZipUnchanged

\* A launched bridge, or one with no workfile yet; the workfile opened lies on
\* disk with its local scene.
ZipInit ==
    /\ registered_plugins = EmptyDict
    /\ registered_plugin_paths = EmptyDict
    /\ registered_root = None
    /\ registered_host = None
    /\ _registered_config = None
    /\ Session = EmptyDict
    /\ _registered_event_handlers = EmptyDict
    /\ environ = EmptyDict
    /\ document = NoLayers
    /\ emitted = NoEmission
    /\ _is_installed = FALSE
    /\ _config = None
    /\ callback_queue = Queue(<< >>)
    /\ workfile_path \in {None, "sceneA.zip"}
    /\ threads = << >>
    /\ filesystem = [p \in {"sceneA.zip"} \cup SceneDirs |->
                        Stored(IF p = "sceneA.zip" THEN "earlier" ELSE "scene")]
    /\ cwd \in {None, dirname(get_local_path("sceneA.zip"))}
    /\ executed = << >>
    /\ ret = Result("init", None, None, None)
    /\ calls = << >>

ZipNext ==
    \/ \E source \in SceneDirs : on_file_changed(source)
    \/ \E t \in DOMAIN threads : zip_chdir(t)
    \/ \E t \in DOMAIN threads : zip_open(t)
    \/ \E t \in DOMAIN threads : zip_close(t)
    \/ \E t \in DOMAIN threads : zip_move(t)

SpecZip == ZipInit /\ [][ZipNext]_vars

\* Every thread started has run to its end or died.
Settled ==
    /\ threads # << >>
    /\ \A t \in DOMAIN threads : threads[t].pc \in {"done", "died"}

\* The file at `path` is the whole archive of one of the triggers.
CompleteArchive(path) ==
    /\ path \in DOMAIN filesystem
    /\ filesystem[path].open = {}
    /\ ~filesystem[path].torn
    /\ \E t \in DOMAIN threads : filesystem[path].of = threads[t].source

\* C36 (as claimed): zip_and_move threads running at the same time do not
\* interfere: none of them fails, and when all have ended the workfile at
\* workfile_path is the complete archive of one of the triggers, not a partial
\* or missing file; with workfile_path unset on_file_changed starts no thread.
C36_ZipThreadsDoNotInterfere ==
    /\ \A t \in DOMAIN threads : threads[t].pc # "died"
    /\ Settled => CompleteArchive(workfile_path)
    /\ workfile_path = None => threads = << >>

-----------------------------------------------------------------------------
(* get_thumbnail_binary and the thumbnail resolvers.                       *)

\* The resolver classes of pipeline.py, with their class attributes.
ResolverInfo ==
    [R \in {"TemplateResolver", "BinaryThumbnail"} |->
        [priority |-> IF R = "TemplateResolver" THEN 90 ELSE 100,
         thumbnail_types |-> <<"*">>]]

\* Thumbnail entities: empty, or with what data holds; on_disk tells whether
\* the file the template formats to exists.
ThumbnailEntities ==
    [empty : BOOLEAN,
     binary_data : {None, "", "png"},
     template : {None, "", "complete", "missingKey"},
     on_disk : BOOLEAN]

ThumbnailTypes == {"thumbnail", "ico"}

\* Resolver(dbcon).process(thumbnail_entity, thumbnail_type): [exc, val], val
\* being None, "" or the bytes.
process(Resolver, thumbnail_entity, thumbnail_type) ==
    IF Resolver = "BinaryThumbnail"
    THEN [exc |-> None, val |-> thumbnail_entity.binary_data]
    ELSE IF "AVALON_THUMBNAIL_ROOT" \notin DOMAIN environ
            \/ thumbnail_entity.template \in {None, ""}
            \/ thumbnail_entity.template = "missingKey"
            \/ ~thumbnail_entity.on_disk
    THEN [exc |-> None, val |-> None]
    ELSE [exc |-> None, val |-> "file"]

\* sorted(resolvers, key=lambda cls: cls.priority)
RECURSIVE SortedByPriority(_)
SortedByPriority(resolvers) ==
    IF resolvers = << >> THEN << >>
    ELSE LET n == CHOOSE i \in DOMAIN resolvers :
                     /\ \A j \in DOMAIN resolvers :
                            ResolverInfo[resolvers[i]].priority
                                <= ResolverInfo[resolvers[j]].priority
                     /\ \A j \in 1..(i - 1) :
                            ResolverInfo[resolvers[j]].priority
                                # ResolverInfo[resolvers[i]].priority
         IN  <<resolvers[n]>>
                \o SortedByPriority(SubSeq(resolvers, 1, n - 1)
                                    \o SubSeq(resolvers, n + 1, Len(resolvers)))

\* The condition under which the loop skips a resolver.
SkippedFor(available_types, thumbnail_type) ==
    /\ thumbnail_type \notin Range(available_types)
    /\ "*" \notin Range(available_types)
    /\ Len(available_types) = 0

\* The loop over the sorted resolvers: [exc, val, ran].
RECURSIVE ResolverLoop(_, _, _, _)
ResolverLoop(resolvers, thumbnail_entity, thumbnail_type, ran) ==
    IF resolvers = << >> THEN [exc |-> None, val |-> None, ran |-> ran]
    ELSE IF SkippedFor(ResolverInfo[Head(resolvers)].thumbnail_types,
                       thumbnail_type)
    THEN ResolverLoop(Tail(resolvers), thumbnail_entity, thumbnail_type, ran)
    ELSE LET result == process(Head(resolvers), thumbnail_entity, thumbnail_type) IN
         IF result.exc = None /\ result.val \notin {None, ""}
         THEN [exc |-> None, val |-> result.val,
               ran |-> Append(ran, Head(resolvers))]
         ELSE ResolverLoop(Tail(resolvers), thumbnail_entity, thumbnail_type,
                           Append(ran, Head(resolvers)))

\* get_thumbnail_binary(thumbnail_entity, thumbnail_type): discover is the
\* stub of pipeline.py, and sorted(None) raises TypeError.
get_thumbnail_binary(thumbnail_entity, thumbnail_type) ==
    LET resolvers == pipeline_discover("ThumbnailResolver") IN
    IF thumbnail_entity.empty THEN [exc |-> None, val |-> None, ran |-> << >>]
    ELSE IF resolvers = None
    THEN [exc |-> "TypeError", val |-> None, ran |-> << >>]
    ELSE ResolverLoop(SortedByPriority(resolvers), thumbnail_entity,
                      thumbnail_type, << >>)

ThumbnailInit ==
    /\ registered_plugins = EmptyDict
    /\ registered_plugin_paths = EmptyDict
    /\ registered_root = None
    /\ registered_host = None
    /\ _registered_config = None
    /\ Session = EmptyDict
    /\ _registered_event_handlers = EmptyDict
    /\ \/ environ = EmptyDict
       \/ environ = [k \in {"AVALON_THUMBNAIL_ROOT"} |-> "/thumbs"]
    /\ document = NoLayers
    /\ Imported
    /\ \E thumbnail_entity \in ThumbnailEntities, thumbnail_type \in ThumbnailTypes :
           ret = Result("call", [thumbnail_entity |-> thumbnail_entity,
                                 thumbnail_type |-> thumbnail_type], None, None)
    /\ calls = << >>

get_thumbnail_binary_call ==
    LET r == get_thumbnail_binary(ret.arg.thumbnail_entity,
                                  ret.arg.thumbnail_type) IN
    /\ ret.op = "call"
    /\ ret' = Result("get_thumbnail_binary", ret.arg, r.exc, r.val)
    /\ calls' = r.ran
    /\ PathUnchanged

SpecThumbnail == ThumbnailInit /\ [][get_thumbnail_binary_call]_vars

\* What the resolvers registered by pipeline.py yield when tried in ascending
\* priority, TemplateResolver (90) before BinaryThumbnail (100).
FirstNonEmpty(thumbnail_entity, thumbnail_type) ==
    ResolverLoop(<<"TemplateResolver", "BinaryThumbnail">>, thumbnail_entity,
                 thumbnail_type, << >>)

\* C37 (as claimed): for a thumbnail entity that is not empty,
\* get_thumbnail_binary tries the discovered resolvers in ascending priority
\* and returns the first non-empty result; the resolvers run are those up to
\* the one that yielded it.
C37_FirstResolverByPriority ==
    (ret.op = "get_thumbnail_binary" /\ ~ret.arg.thumbnail_entity.empty)
        => /\ ret.exc = None
           /\ ret.val = FirstNonEmpty(ret.arg.thumbnail_entity,
                                      ret.arg.thumbnail_type).val
           /\ calls = FirstNonEmpty(ret.arg.thumbnail_entity,
                                    ret.arg.thumbnail_type).ran

-----------------------------------------------------------------------------
(* Application.environ.                                                    *)

\* HOST_WORKFILE_EXTENSIONS, for maya and nuke; .get gives None for any other
\* application.
HOST_WORKFILE_EXTENSIONS ==
    [app \in { <<"m", "a", "y", "a">>, <<"n", "u", "k", "e">> } |->
        IF app = <<"m", "a", "y", "a">>
        THEN << <<".", "m", "a">>, <<".", "m", "b">> >>
        ELSE << <<".", "n", "k">> >>]

\* Values of config["application_dir"]: "maya", "nuke" and "djv".
ApplicationDirs == DOMAIN HOST_WORKFILE_EXTENSIONS \cup { <<"d", "j", "v">> }

\* Sessions handed to environ: complete, or without AVALON_TASK.
LaunchSessions ==
    [s \in {"complete", "noTask"} |->
        [k \in {"AVALON_PROJECT", "AVALON_ASSET"}
               \cup (IF s = "complete" THEN {"AVALON_TASK"} ELSE {}) |->
            CASE k = "AVALON_PROJECT" -> "proj"
              [] k = "AVALON_ASSET" -> "hero"
              [] k = "AVALON_TASK" -> <<"c", "o", "m", "p">>]]

\* What the work directory holds when the application is launched.
LaunchFiles ==
    { {},
      { <<"s", "c", "e", "n", "e", "_", "v", "0", "0", "1", ".", "m", "a">> },
      { <<"s", "c", "e", "n", "e", "_", "v", "0", "0", "2", ".", "m", "a">>,
        <<"s", "c", "e", "n", "e", "_", "v", "0", "1", "1", ".", "m", "b">> } }

\* What fetching the presets gives at launch: none, a failure, or one rule for
\* every host and task.
LaunchPresets ==
    {p \in get_presets :
        p.found => /\ Len(p.val) = 1
                   /\ p.val[1].hosts = << >> /\ p.val[1].tasks = << >>
                   /\ p.val[1].enabled # None}

\* os.path.exists(path) for a path in the work directory.
WorkfileExists(files, path) ==
    \E f \in files : path = WorkdirPath \o <<"/">> \o f

\* Faulty variant of Exported: the file is not looked for on disk.
ExportedUnchecked(start_last_workfile, last_workfile_path, files) ==
    start_last_workfile = PyTrue /\ last_workfile_path # << >>

\* `start_last_workfile and last_workfile_path and
\* os.path.exists(last_workfile_path)`; the path is the empty str here when
\* the code has None.
Exported(start_last_workfile, last_workfile_path, files) ==
    /\ start_last_workfile = PyTrue
    /\ last_workfile_path # << >>
    /\ WorkfileExists(files, last_workfile_path)

\* Application.environ(session) for an application whose config names
\* `application_dir`: [exc, env, session, last_workfile_path], session being
\* the caller's mapping after the call and last_workfile_path the local of
\* that name. The environments of the tools and of the anatomy roots are taken
\* as empty.
Application_environ(application_dir, session, files, file_template, presets) ==
    LET copied == Updated(session,
                          [k \in {"AVALON_APP", "AVALON_APP_NAME"} |->
                              application_dir])
        template_data == template_data_from_session(copied)
        with_workdir == Updated(copied, [k \in {"AVALON_WORKDIR"} |-> WorkdirPath])
        known == application_dir \in DOMAIN HOST_WORKFILE_EXTENSIONS
        extensions == HOST_WORKFILE_EXTENSIONS[application_dir]
        found == last_workfile(
                     [exists |-> TRUE, files |-> files], file_template,
                     Updated(template_data.val,
                             [k \in {"version", "user", "ext"} |->
                                 CASE k = "version" -> <<"1">>
                                   [] k = "user" -> <<"u">>
                                   [] k = "ext" -> extensions[1]]),
                     extensions, TRUE)
        last_workfile_path == IF known THEN found.val ELSE << >>
        start == should_start_last_workfile(presets, application_dir,
                                            with_workdir["AVALON_TASK"])
        opened == Updated(with_workdir,
                          [k \in {"AVALON_OPEN_LAST_WORKFILE"} |->
                              IF start.val = PyTrue THEN <<"1">> ELSE <<"0">>])
        exported == IF Exported(start.val, last_workfile_path, files)
                    THEN Updated(opened, [k \in {"AVALON_LAST_WORKFILE"} |->
                                             last_workfile_path])
                    ELSE opened
        raised(exc) == [exc |-> exc, env |-> EmptyDict, session |-> session,
                        last_workfile_path |-> << >>] IN
    IF template_data.exc # None THEN raised(template_data.exc)
    ELSE IF known /\ found.exc # None THEN raised(found.exc)
    ELSE IF start.exc # None THEN raised(start.exc)
    ELSE [exc |-> None, env |-> Updated(environ, exported), session |-> session,
          last_workfile_path |-> last_workfile_path]

LaunchInputs ==
    [application_dir : ApplicationDirs,
     session : DOMAIN LaunchSessions,
     files : LaunchFiles,
     file_template : {"literalExt", "extField"},
     presets : LaunchPresets]

ApplicationInit ==
    /\ registered_plugins = EmptyDict
    /\ registered_plugin_paths = EmptyDict
    /\ registered_root = None
    /\ registered_host = None
    /\ _registered_config = None
    /\ Session = EmptyDict
    /\ _registered_event_handlers = EmptyDict
    /\ \/ environ = EmptyDict
       \/ environ = [k \in {"AVALON_OPEN_LAST_WORKFILE"} |-> <<"1">>]
    /\ document = NoLayers
    /\ Imported
    /\ \E input \in LaunchInputs : ret = Result("call", input, None, None)
    /\ calls = << >>

Application_environ_call ==
    LET r == Application_environ(
                 ret.arg.application_dir, LaunchSessions[ret.arg.session],
                 ret.arg.files, WorkTemplates[ret.arg.file_template],
                 ret.arg.presets) IN
    /\ ret.op = "call"
    /\ ret' = Result("Application.environ", ret.arg, r.exc,
                     [env |-> r.env, session |-> r.session,
                      last_workfile_path |-> r.last_workfile_path])
    /\ calls' = << >>
    /\ PathUnchanged

SpecApplication == ApplicationInit /\ [][Application_environ_call]_vars

-----------------------------------------------------------------------------
(* Claims about Application.environ.                                       *)

\* What should_start_last_workfile gives for the last call of environ.
StartsLastWorkfile ==
    should_start_last_workfile(ret.arg.presets, ret.arg.application_dir,
                               LaunchSessions[ret.arg.session]["AVALON_TASK"]).val
        = PyTrue

\* C38: a call of Application.environ that returns leaves the session it was
\* given as it was, sets AVALON_OPEN_LAST_WORKFILE to "1" when
\* should_start_last_workfile is true and to "0" otherwise, and sets
\* AVALON_LAST_WORKFILE, to the path last_workfile resolved, exactly when
\* should_start_last_workfile is true, the application has known workfile
\* extensions and that path exists on disk; so a version-1 name made up for an
\* empty work directory is never exported.
C38_LastWorkfileExportedIffExists ==
    (ret.op = "Application.environ" /\ ret.exc = None)
        => /\ ret.val.session = LaunchSessions[ret.arg.session]
           /\ ret.val.env["AVALON_OPEN_LAST_WORKFILE"]
                  = IF StartsLastWorkfile THEN <<"1">> ELSE <<"0">>
           /\ "AVALON_LAST_WORKFILE" \in DOMAIN ret.val.env
                  <=> /\ StartsLastWorkfile
                      /\ ret.arg.application_dir \in DOMAIN HOST_WORKFILE_EXTENSIONS
                      /\ WorkfileExists(ret.arg.files, ret.val.last_workfile_path)
           /\ "AVALON_LAST_WORKFILE" \in DOMAIN ret.val.env
                  => /\ ret.val.env["AVALON_LAST_WORKFILE"]
                            = ret.val.last_workfile_path
                     /\ WorkfileExists(ret.arg.files,
                                       ret.val.env["AVALON_LAST_WORKFILE"])

\* environ returned for maya with the workfiles to be opened, and the latest
\* of two workfiles on disk was exported.
C38_Witness ==
    /\ ret.op = "Application.environ" /\ ret.exc = None
    /\ ret.arg.application_dir = <<"m", "a", "y", "a">>
    /\ Cardinality(ret.arg.files) = 2
    /\ ret.val.env["AVALON_OPEN_LAST_WORKFILE"] = <<"1">>
    /\ "AVALON_LAST_WORKFILE" \in DOMAIN ret.val.env
====
